---- MODULE Spec2Model ----
(***************************************************************************)
(* A model of the cross-posting pipeline of twitter-bluesky-mirror:        *)
(* CrossPostAgent (cross-post-agent.ts), BlueskyService (bluesky-          *)
(* service.ts) and the start-up code of main.ts.                           *)
(*                                                                         *)
(* JavaScript runs one callback at a time, so every action below is one    *)
(* run-to-completion segment of the code between two await points.         *)
(* Texts are sequences of one-character strings.                           *)
(***************************************************************************)
EXTENDS Integers, Sequences, FiniteSets, TLC

VARIABLES
  phase,            \* "constructed" | "running" | "aborted" | "crashed"
  pairs,            \* config.accountPairs: the source accounts, in order
  initIdx,          \* BlueskyService.initialize: pairs already logged in
  recentPosts,      \* BlueskyService.recentPosts: account -> texts, or NoCache
  lastCheckedTweets,\* CrossPostAgent.lastCheckedTweets: account -> ids, or NoEntry
  pairInd,          \* CrossPostAgent.start: the round-robin index
  timerOn,          \* setInterval has been called
  cycles,           \* checkAndPost invocations: slot -> cycle record
  started,          \* number of checkAndPost invocations so far (to MaxCycles)
  store,            \* the Item Store: account -> id -> "none" | "succeeded" | "failed"
  created,          \* destination: id -> createPost calls that resolved (to MaxCycles)
  insCount,         \* SpecCache: account -> number of posts recorded
  firstIns,         \* SpecCache: account -> the first text recorded, or NoText
  lastEnd,          \* how the last finished invocation ended
  dupCall,          \* the last isDuplicateWithRecentBlueskyPosts call, or NoCall
  poster,           \* BlueskyPoster.createPost: the call in progress
  factory,          \* ScraperFactory: its browser and its scrapers map
  adapters,         \* the adapter objects constructed so far
  sessions,         \* the sessions puppeteer.connect() has resolved to
  calls,            \* getScraperForPlatform invocations
  cleanups,         \* ScraperFactory.cleanup invocations
  fetches,          \* getLatestTweets invocations
  exited,           \* process.exit was called
  stored,           \* CrossPostAgent.postStoredTweet: the call in progress
  fetchLog,         \* the getLatestTweets calls of checkAndPost, as wired by runAgents
  newReports,       \* id -> fetches that found the item new since it was last
                    \* missing from a fetch (to 2)
  reddit            \* RedditMonitorService: lastProcessedPostId, the requests
                    \* of checkNewPosts in flight, the calls of onMatchFound

vars == <<phase, pairs, initIdx, recentPosts, lastCheckedTweets, pairInd,
          timerOn, cycles, started, store, created, insCount, firstIns, lastEnd,
          dupCall, poster, factory, adapters, sessions, calls, cleanups,
          fetches, exited, stored, fetchLog, newReports, reddit>>

\* The state of the agent and of BlueskyService.
agentVars == <<phase, pairs, initIdx, recentPosts, lastCheckedTweets, pairInd,
               timerOn, cycles, started, store, created, insCount, firstIns,
               lastEnd, dupCall, poster, stored, fetchLog, newReports>>

\* The state of the scraper factory, its adapters and the process.
regVars == <<factory, adapters, sessions, calls, cleanups, fetches, exited>>

(***************************************************************************)
(* Bounds of the model                                                     *)
(***************************************************************************)
MaxCycles == 3      \* checkAndPost invocations explored
MaxConc == 2        \* checkAndPost invocations in flight at once
MaxCalls == 3       \* getScraperForPlatform invocations explored
MaxCleanups == 2    \* ScraperFactory.cleanup invocations explored
MaxFetches == 2     \* getLatestTweets invocations explored
MaxChecks == 4      \* checkNewPosts invocations explored
MaxImages == 2      \* image and thumbnail pages of one extraction

(***************************************************************************)
(* Program constants                                                       *)
(***************************************************************************)
FEED_LIMIT == 20    \* getAuthorFeed({limit: 20})
PREFIX_LEN == 70    \* .substring(0, 70)
CHAR_LIMIT == 299   \* BlueskyPoster.CHAR_LIMIT

\* The values of a missing map entry; they differ from every list of texts,
\* every list of ids and every text.
NoCache == << <<"NoCache">> >>
NoCall == [called |-> FALSE, text |-> <<>>, account |-> "none", result |-> FALSE]
NoEntry == <<0>>
NoText == <<"NoText">>

Min(a, b) == IF a < b THEN a ELSE b

Range(s) == {s[i] : i \in 1..Len(s)}

\* The character c, n times.
Rep(c, n) == [i \in 1..n |-> c]

(***************************************************************************)
(* The configuration and the inputs                                        *)
(***************************************************************************)
Accounts == {"srcA", "srcB"}

Configs == {<<"srcA">>, <<"srcA", "srcB">>}

\* The items a source account can show; a larger id is a later publication.
ItemIds(a) == IF a = "srcA" THEN {1, 2, 3} ELSE {4}

AllIds == {1, 2, 3, 4}

\* The items that are longer than a destination post.
LongItemIds(a) == IF a = "srcA" THEN {5, 6} ELSE {}

\* n characters that end in a full stop.
Sentence(c, n) == Rep(c, n - 1) \o <<".">>

\* A sentence of six words that is longer than a destination post.
LongSentence ==
  Rep("p", 59) \o <<" ">> \o Rep("q", 59) \o <<" ">> \o Rep("r", 59) \o <<" ">>
  \o Rep("s", 59) \o <<" ">> \o Rep("t", 59) \o <<" ">> \o Sentence("u", 59)

ShortThenLongSentence == Sentence("a", 50) \o <<" ">> \o LongSentence

LongSentenceThenShort == LongSentence \o <<" ">> \o Sentence("b", 30)

\* TweetData.text of each item. Items 2 and 3 differ in case, spacing and a
\* URL only. Items 5 and 6 are longer than a destination post.
TextOf(id) ==
  CASE id = 1 -> <<"y", "o", ".">>
    [] id = 2 -> <<"H", "i">>
    [] id = 3 -> <<"h", "i", " ", " ", "h", "t", "t", "p", ":", "/", "/", "u">>
    [] id = 5 -> ShortThenLongSentence
    [] id = 6 -> LongSentenceThenShort
    [] OTHER  -> <<"o", "k">>

\* What getLatestTweets can return for an account: newest first.
Feeds(a) ==
  IF a = "srcA"
  THEN {<<>>, <<1>>, <<2, 1>>, <<3, 1>>, <<3, 2, 1>>}
  ELSE {<<>>, <<4>>}

\* The destination account's own posts when the process starts, newest first.
Histories(a) ==
  IF a = "srcA"
  THEN { <<>>, << <<"H", "I">> >>, << <<"n", "o">>, <<"Y", "o", ".">> >> }
  ELSE { <<>>, << <<"O", "K">> >> }

\* Longer histories, up to one post more than the feed request asks for.
OldPost(k) == <<"o", "l", "d">> \o Rep("x", k)

LongHistories(a) ==
  Histories(a) \cup
  { [k \in 1..FEED_LIMIT |-> OldPost(k)],
    [k \in 1..(FEED_LIMIT + 1) |->
       IF k = FEED_LIMIT + 1 THEN <<"H", "I">> ELSE OldPost(k)] }

\* Texts for the Duplicate Guard: variants in case, spacing and URLs, and two
\* texts that differ only after the compared prefix.
SeeWithUrl == <<"S", "e", "e", " ", "h", "t", "t", "p", ":", "/", "/", "a">>

SeeWithUrlUpper == <<"S", "E", "E", " ", "H", "T", "T", "P", ":", "/", "/", "A">>

SeePlain == <<"s", "e", "e">>

SeeSpaced == <<" ", "S", "E", "E", "\t", " ">>

WordsAroundUrl ==
  <<"x", "h", "t", "t", "p", "s", ":", "/", "/", "q", " ", "\n", "z">>

WordsPlain == <<"X", " ", "z">>

SchemeOnly == <<"h", "t", "t", "p", ":", "/", "/">>

LongPrefixA == Rep("k", PREFIX_LEN) \o <<"a">>

LongPrefixB == Rep("k", PREFIX_LEN) \o <<"b">>

GuardTexts ==
  {SeeWithUrl, SeeWithUrlUpper, SeePlain, SeeSpaced, WordsAroundUrl, WordsPlain,
   SchemeOnly, LongPrefixA, LongPrefixB, <<>>, <<"n", "o">>}

\* The destination account's own posts for the Duplicate Guard.
GuardHistories(a) ==
  IF a = "srcA"
  THEN { <<>>, <<SeeWithUrl>>, << <<"n", "o">>, SeeSpaced >>, <<LongPrefixA>>,
         <<WordsAroundUrl, SchemeOnly>> }
  ELSE { <<>>, <<SeePlain>> }

(***************************************************************************)
(* String operations of JavaScript, on sequences of characters             *)
(***************************************************************************)
\* \s of a JavaScript regular expression (the members that occur in texts).
IsWhitespace(c) == c \in {" ", "\t", "\n", "\r"}

UpperChars == <<"A", "B", "C", "D", "E", "F", "G", "H", "I", "J", "K", "L", "M",
                "N", "O", "P", "Q", "R", "S", "T", "U", "V", "W", "X", "Y", "Z">>

LowerChars == <<"a", "b", "c", "d", "e", "f", "g", "h", "i", "j", "k", "l", "m",
                "n", "o", "p", "q", "r", "s", "t", "u", "v", "w", "x", "y", "z">>

\* String.prototype.toLowerCase
ToLowerChar(c) ==
  IF \E k \in 1..Len(UpperChars) : UpperChars[k] = c
  THEN LowerChars[CHOOSE k \in 1..Len(UpperChars) : UpperChars[k] = c]
  ELSE c

ToLowerCase(s) == [i \in 1..Len(s) |-> ToLowerChar(s[i])]

StartsWithAt(s, i, p) ==
  /\ i + Len(p) - 1 <= Len(s)
  /\ \A k \in 1..Len(p) : s[i + k - 1] = p[k]

\* The number of characters from position i up to the next whitespace.
RECURSIVE NonWsRun(_, _)
NonWsRun(s, i) ==
  IF i > Len(s) \/ IsWhitespace(s[i]) THEN 0 ELSE 1 + NonWsRun(s, i + 1)

\* The length of the match of /https?:\/\/\S+/ that starts at position i, or 0.
UrlMatchLen(s, i) ==
  IF StartsWithAt(s, i, <<"h", "t", "t", "p", "s", ":", "/", "/">>)
     /\ NonWsRun(s, i + 8) > 0
  THEN 8 + NonWsRun(s, i + 8)
  ELSE IF StartsWithAt(s, i, <<"h", "t", "t", "p", ":", "/", "/">>)
          /\ NonWsRun(s, i + 7) > 0
       THEN 7 + NonWsRun(s, i + 7)
       ELSE 0

\* .replace(/https?:\/\/\S+/g, '')
RECURSIVE StripUrlsFrom(_, _)
StripUrlsFrom(s, i) ==
  IF i > Len(s) THEN <<>>
  ELSE IF UrlMatchLen(s, i) > 0 THEN StripUrlsFrom(s, i + UrlMatchLen(s, i))
       ELSE <<s[i]>> \o StripUrlsFrom(s, i + 1)

StripUrls(s) == StripUrlsFrom(s, 1)

\* The number of whitespace characters from position i on.
RECURSIVE WsRun(_, _)
WsRun(s, i) ==
  IF i > Len(s) \/ ~IsWhitespace(s[i]) THEN 0 ELSE 1 + WsRun(s, i + 1)

\* .replace(/\s+/g, ' ')
RECURSIVE CollapseFrom(_, _)
CollapseFrom(s, i) ==
  IF i > Len(s) THEN <<>>
  ELSE IF IsWhitespace(s[i]) THEN <<" ">> \o CollapseFrom(s, i + WsRun(s, i))
       ELSE <<s[i]>> \o CollapseFrom(s, i + 1)

CollapseWhitespace(s) == CollapseFrom(s, 1)

\* String.prototype.trim
Trim(s) ==
  IF \A i \in 1..Len(s) : IsWhitespace(s[i]) THEN <<>>
  ELSE LET lo == CHOOSE i \in 1..Len(s) :
                   ~IsWhitespace(s[i]) /\ \A j \in 1..(i - 1) : IsWhitespace(s[j])
           hi == CHOOSE i \in 1..Len(s) :
                   ~IsWhitespace(s[i]) /\ \A j \in (i + 1)..Len(s) : IsWhitespace(s[j])
       IN SubSeq(s, lo, hi)

\* String.prototype.substring(0, n)
Substring0(s, n) == SubSeq(s, 1, Min(n, Len(s)))

(***************************************************************************)
(* BlueskyService                                                          *)
(***************************************************************************)
\* As CleanText, without toLowerCase.
CleanTextCaseSensitive(text) ==
  Substring0(Trim(CollapseWhitespace(StripUrls(text))), PREFIX_LEN)

\* The clean-up chain of isDuplicateWithRecentBlueskyPosts.
CleanText(text) ==
  Substring0(ToLowerCase(Trim(CollapseWhitespace(StripUrls(text)))), PREFIX_LEN)

\* isDuplicateWithRecentBlueskyPosts(text, sourceAccount), on the map rp.
IsDuplicateWithRecentBlueskyPosts(rp, text, a) ==
  IF rp[a] = NoCache THEN FALSE
  ELSE \E k \in 1..Len(rp[a]) : CleanText(text) = CleanText(rp[a][k])

\* bskyAgent.getAuthorFeed({actor, limit}): the newest `limit` posts.
GetAuthorFeed(history, limit) == SubSeq(history, 1, Min(limit, Len(history)))

\* loadRecentPosts: the texts of the feed, in feed order.
LoadedPosts(history) == GetAuthorFeed(history, FEED_LIMIT)

\* Array.prototype.unshift
Unshift(arr, x) == <<x>> \o arr

\* while (recentPosts?.length > 0) recentPosts.pop();
RECURSIVE PopWhileLonger(_, _)
PopWhileLonger(arr, n) ==
  IF Len(arr) > n THEN PopWhileLonger(SubSeq(arr, 1, Len(arr) - 1), n) ELSE arr

\* As RecordPost, without the eviction loop.
RecordPostNoEvict(cache, text) ==
  IF cache = NoCache THEN NoCache ELSE Unshift(cache, text)

\* The tail of postTweet: the cache of one account after a post of `text`.
RecordPost(cache, text) ==
  IF cache = NoCache THEN NoCache
  ELSE PopWhileLonger(Unshift(cache, text), 0)

(***************************************************************************)
(* BlueskyPoster: splitTextIntoChunks                                      *)
(***************************************************************************)
\* const SAFE_LIMIT = this.CHAR_LIMIT - 20;
SAFE_LIMIT == CHAR_LIMIT - 20

MinOf(S) == CHOOSE x \in S : \A y \in S : x <= y

\* [.!?] of the sentence pattern.
IsPunct(c) == c \in {".", "!", "?"}

\* The first position from i on that holds a terminator, or Len(s) + 1.
NextPunct(s, i) == MinOf({j \in i..Len(s) : IsPunct(s[j])} \cup {Len(s) + 1})

\* The first position from i on that holds no terminator, or Len(s) + 1.
NextNonPunct(s, i) == MinOf({j \in i..Len(s) : ~IsPunct(s[j])} \cup {Len(s) + 1})

\* The matches of /[^.!?]+[.!?]+/g from position i on: a run of other
\* characters followed by a run of terminators.
RECURSIVE MatchSentencesFrom(_, _)
MatchSentencesFrom(s, i) ==
  LET b == NextNonPunct(s, i)
      j == NextPunct(s, b)
      k == NextNonPunct(s, j)
  IN IF b > Len(s) \/ j > Len(s) THEN <<>>
     ELSE <<SubSeq(s, b, k - 1)>> \o MatchSentencesFrom(s, k)

\* text.match(/[^.!?]+[.!?]+/g) || [text]
Sentences(text) ==
  IF MatchSentencesFrom(text, 1) = <<>> THEN <<text>>
  ELSE MatchSentencesFrom(text, 1)

NextWs(s, i) == MinOf({j \in i..Len(s) : IsWhitespace(s[j])} \cup {Len(s) + 1})

NextNonWs(s, i) == MinOf({j \in i..Len(s) : ~IsWhitespace(s[j])} \cup {Len(s) + 1})

\* sentence.split(/\s+/) from position i on: the pieces between whitespace
\* runs, with an empty piece before a leading or after a trailing run.
RECURSIVE SplitFrom(_, _)
SplitFrom(s, i) ==
  LET j == NextWs(s, i) IN
  IF j > Len(s) THEN <<SubSeq(s, i, Len(s))>>
  ELSE <<SubSeq(s, i, j - 1)>> \o SplitFrom(s, NextNonWs(s, j))

SplitWhitespace(s) == SplitFrom(s, 1)

\* if (currentChunk) chunks.push(currentChunk.trim());
PushChunk(chunks, currentChunk) ==
  IF currentChunk # <<>> THEN Append(chunks, Trim(currentChunk)) ELSE chunks

\* One iteration of the loop over the words of a sentence.
WordStep(st, word) ==
  IF Len(st.currentChunk) + 1 + Len(word) <= SAFE_LIMIT
  THEN [st EXCEPT !.currentChunk =
          @ \o (IF @ # <<>> THEN <<" ">> ELSE <<>>) \o word]
  ELSE [chunks |-> PushChunk(st.chunks, st.currentChunk), currentChunk |-> word]

RECURSIVE WordLoop(_, _, _)
WordLoop(st, words, k) ==
  IF k > Len(words) THEN st ELSE WordLoop(WordStep(st, words[k]), words, k + 1)

\* As SentenceStep, without the split of a long sentence into words.
SentenceStepNoWordSplit(st, sentence) ==
  IF Len(st.currentChunk) + Len(sentence) <= SAFE_LIMIT
  THEN [st EXCEPT !.currentChunk = @ \o sentence]
  ELSE [chunks |-> PushChunk(st.chunks, st.currentChunk),
        currentChunk |-> sentence]

\* One iteration of the loop over the sentences.
SentenceStep(st, sentence) ==
  IF Len(st.currentChunk) + Len(sentence) <= SAFE_LIMIT
  THEN [st EXCEPT !.currentChunk = @ \o sentence]
  ELSE LET pushed == PushChunk(st.chunks, st.currentChunk) IN
       IF Len(sentence) > SAFE_LIMIT
       THEN WordLoop([chunks |-> pushed, currentChunk |-> <<>>],
                     SplitWhitespace(sentence), 1)
       ELSE [chunks |-> pushed, currentChunk |-> sentence]

RECURSIVE SentenceLoop(_, _, _)
SentenceLoop(st, sentences, k) ==
  IF k > Len(sentences) THEN st
  ELSE SentenceLoop(SentenceStep(st, sentences[k]), sentences, k + 1)

\* As ForceSplit, leaving a chunk that is too long as it is.
KeepLongChunk(chunk) == chunk

\* The final map: a chunk that is still too long is cut at the limit.
ForceSplit(chunk) ==
  IF Len(chunk) > SAFE_LIMIT THEN SubSeq(chunk, 1, SAFE_LIMIT) ELSE chunk

\* splitTextIntoChunks(text)
SplitTextIntoChunks(text) ==
  IF Len(text) < SAFE_LIMIT THEN <<text>>
  ELSE LET st == SentenceLoop([chunks |-> <<>>, currentChunk |-> <<>>],
                              Sentences(text), 1)
           chunks == PushChunk(st.chunks, st.currentChunk)
       IN [k \in 1..Len(chunks) |-> ForceSplit(chunks[k])]

(***************************************************************************)
(* BlueskyPoster: createPost and createSinglePost                          *)
(***************************************************************************)
NoRef == [uri |-> 0, cid |-> 0]

NoReply == [root |-> NoRef, parent |-> NoRef]

NoEmbed == "undefined"

NoRequest == [text |-> <<>>, embed |-> NoEmbed, reply |-> NoReply]

\* No createPost call is in progress.
NoPost ==
  [pc |-> "idle", text |-> <<>>,
   media |-> [platform |-> "none", video |-> "none", images |-> 0],
   chunks |-> <<>>,
   embed |-> NoEmbed, i |-> 0, rootRef |-> NoRef, parentRef |-> NoRef,
   request |-> NoRequest, posts |-> <<>>, isThread |-> FALSE]

\* Number.prototype.toString for the numbers of a thread marker.
Digits == <<"0", "1", "2", "3", "4", "5", "6", "7", "8", "9">>

RECURSIVE NumberToString(_)
NumberToString(n) ==
  IF n < 10 THEN <<Digits[n + 1]>>
  ELSE NumberToString(n \div 10) \o <<Digits[(n % 10) + 1]>>

\* `${i + 1}/${textChunks.length} `, for the 0-based index i.
ThreadMarker(i, n) == NumberToString(i + 1) \o <<"/">> \o NumberToString(n) \o <<" ">>

\* The media of a TweetData: its platform, its first video and its images.
MediaKinds ==
  { [platform |-> p, video |-> v, images |-> n] :
      p \in {"truthsocial", "twitter"},
      v \in {"none", "youtube", "other"},
      n \in {0, 1} }

\* The embed createPost prepares; uploadOk tells whether the image uploads
\* gave a blob.
PrepareEmbed(m, uploadOk) ==
  IF m.platform = "truthsocial"
  THEN IF m.video # "none" THEN "external"
       ELSE IF m.images > 0 /\ uploadOk THEN "images" ELSE NoEmbed
  ELSE IF m.video # "none"
       THEN IF m.video = "youtube" THEN "external" ELSE NoEmbed
       ELSE IF m.images > 0 /\ uploadOk THEN "images" ELSE NoEmbed

\* if (textChunks.length > 1 || textChunks[0].length > this.CHAR_LIMIT)
IsThread(chunks) == Len(chunks) > 1 \/ Len(chunks[1]) > CHAR_LIMIT

\* As PostEmbed, with the embed on every post of the thread.
EmbedOnEveryPost(i, embed) == embed

\* const postEmbed = i === 0 ? embed : undefined;
PostEmbed(i, embed) == IF i = 0 THEN embed ELSE NoEmbed

\* As ReplyOf, with the parent as the root of every reply.
ReplyToParentOnly(root, parent) == [root |-> parent, parent |-> parent]

\* createSinglePost: reply = {root: threadInfo.root || threadInfo.parent,
\* parent: threadInfo.parent}
ReplyOf(root, parent) ==
  [root |-> IF root # NoRef THEN root ELSE parent, parent |-> parent]

\* The thread loop up to its call of createSinglePost for chunk i (0-based):
\* threadInfo exists only for i > 0 with a parent.
ThreadRequest(r, i) ==
  [text |-> ThreadMarker(i, Len(r.chunks)) \o r.chunks[i + 1],
   embed |-> PostEmbed(i, r.embed),
   reply |-> IF i > 0 /\ r.parentRef # NoRef
             THEN ReplyOf(r.rootRef, r.parentRef)
             ELSE NoReply]

\* The else branch: createSinglePost(textChunks[0], embed, undefined, ...).
SingleRequest(r) == [text |-> r.chunks[1], embed |-> r.embed, reply |-> NoReply]

\* The reference agent.post returns for the n-th post of the destination.
NewRef(n) == [uri |-> n, cid |-> 100 + n]

(***************************************************************************)
(* The inputs of the Thread Composer                                       *)
(***************************************************************************)
ShortText == <<"H", "i", ".">>

BelowLimit == Rep("a", SAFE_LIMIT - 1)

AtLimit == Rep("a", SAFE_LIMIT)

AtLimitWithTail == <<"a", ".">> \o Rep("b", SAFE_LIMIT - 2)

ThreeSentences ==
  Sentence("a", 216) \o <<" ">> \o Sentence("b", 216) \o <<" ">> \o Sentence("c", 216)

FullChunkThenMore == Sentence("a", SAFE_LIMIT) \o <<" ">> \o Sentence("b", 10)

LongWords ==
  Rep("w", 59) \o <<" ">> \o Rep("w", 59) \o <<" ">> \o Rep("w", 59) \o <<" ">>
  \o Rep("v", 59) \o <<" ">> \o Rep("v", 59) \o <<" ">> \o Rep("v", 59)

OneLongWord == Rep("x", CHAR_LIMIT + 1)

BlankText == Rep(" ", CHAR_LIMIT + 1)

SentenceThenTail == Sentence("a", 200) \o <<" ">> \o Rep("b", 150)

LongWordInSentence ==
  Rep("a", 20) \o <<" ">> \o Rep("x", CHAR_LIMIT + 1) \o <<" ">> \o Sentence("b", 20)

PosterTexts ==
  {ShortText, BelowLimit, AtLimit, AtLimitWithTail, ThreeSentences,
   FullChunkThenMore, LongWords, OneLongWord, BlankText, SentenceThenTail,
   ShortThenLongSentence, LongSentenceThenShort, LongWordInSentence}

(***************************************************************************)
(* The Item Store (StorageService)                                         *)
(***************************************************************************)
\* StorageService.saveTweet(tweet, storageDir) when the write succeeds: the
\* record of the item is created or overwritten with the tweet's outcome.
SaveTweet(st, a, id, outcome) == [st EXCEPT ![a][id] = outcome]

(***************************************************************************)
(* CrossPostAgent                                                          *)
(***************************************************************************)
Slots == 1..MaxConc

\* No postStoredTweet call has been made.
NoStored ==
  [pc |-> "idle", account |-> "none", id |-> 0, attempt |-> "none",
   written |-> "none", result |-> "none"]

Reverse(s) == [i \in 1..Len(s) |-> s[Len(s) + 1 - i]]

\* A slot that holds no invocation yet.
NoCycle ==
  [pc |-> "idle", pair |-> "none", latest |-> <<>>, newTweets |-> <<>>,
   toPost |-> <<>>, idx |-> 0, posted |-> <<>>, events |-> <<>>]

\* checkAndPost(pair) up to its first await: getLatestTweets is called.
NewCycle(a) == [NoCycle EXCEPT !.pc = "fetching", !.pair = a]

\* As FindNewTweets, with every item of the fetch taken as new.
FindEveryTweet(entry, latestTweets) == latestTweets

\* findNewTweets: the items of latestTweets whose id is not in the snapshot.
FindNewTweets(entry, latestTweets) ==
  LET lastChecked == IF entry = NoEntry THEN <<>> ELSE entry
      IsNew(id) == ~(\E k \in 1..Len(lastChecked) : lastChecked[k] = id)
  IN SelectSeq(latestTweets, IsNew)

\* What a fetch of account a tells about each item: an item that is missing
\* from the fetch starts afresh, an item that findNewTweets returns has been
\* found new once more.
ReportsAfter(reports, a, latestTweets, newTweets) ==
  [id \in DOMAIN reports |->
     IF id \notin ItemIds(a) \cup LongItemIds(a) THEN reports[id]
     ELSE IF id \notin Range(latestTweets) THEN 0
     ELSE IF id \in Range(newTweets) THEN Min(reports[id] + 1, 2)
     ELSE reports[id]]

\* As SnapshotAfter, replacing the snapshot only when some item is new.
SnapshotOnlyWhenNew(entry, latestTweets) ==
  IF FindNewTweets(entry, latestTweets) = <<>> /\ entry # NoEntry
  THEN entry
  ELSE latestTweets

\* findNewTweets: the snapshot it leaves for the account.
SnapshotAfter(entry, latestTweets) == latestTweets

\* As DedupScan, with `continue` in place of `break`.
RECURSIVE DedupScanSkipping(_, _, _, _)
DedupScanSkipping(rp, a, newTweets, i) ==
  IF i > Len(newTweets) THEN <<>>
  ELSE IF IsDuplicateWithRecentBlueskyPosts(rp, TextOf(newTweets[i]), a)
       THEN DedupScanSkipping(rp, a, newTweets, i + 1)
       ELSE <<newTweets[i]>> \o DedupScanSkipping(rp, a, newTweets, i + 1)

\* The duplicate-detection loop of checkAndPost, from position i: push until
\* the first duplicate, then break.
RECURSIVE DedupScan(_, _, _, _)
DedupScan(rp, a, newTweets, i) ==
  IF i > Len(newTweets) THEN <<>>
  ELSE IF IsDuplicateWithRecentBlueskyPosts(rp, TextOf(newTweets[i]), a)
       THEN <<>>
       ELSE <<newTweets[i]>> \o DedupScan(rp, a, newTweets, i + 1)

\* As CandidatesToPost, without toPost.reverse().
CandidatesNotReversed(rp, a, newTweets) == DedupScan(rp, a, newTweets, 1)

\* toPost after the loop and toPost.reverse().
CandidatesToPost(rp, a, newTweets) == Reverse(DedupScan(rp, a, newTweets, 1))

\* The cycle ends: checkAndPost resolves and its locals are gone.
EndCycle(r) == NoCycle

\* One iteration of the posting loop up to its next await. postTweet checks
\* for a duplicate first: on a match it returns without posting, the tweet is
\* marked posted and saveTweet is called; otherwise createPost is awaited.
BeginAttempt(r, rp) ==
  LET id == r.toPost[r.idx] IN
  IF IsDuplicateWithRecentBlueskyPosts(rp, TextOf(id), r.pair)
  THEN [r EXCEPT !.pc = "saving",
                 !.posted[r.idx] = "succeeded",
                 !.events = @ \o << <<"begin", id>>, <<"skipped", id>> >>]
  ELSE [r EXCEPT !.pc = "creating",
                 !.events = Append(@, <<"begin", id>>)]

\* for (const tweet of toPost): the next iteration, or the end of the loop.
ContinueLoop(r, rp) ==
  IF r.idx > Len(r.toPost) THEN EndCycle(r) ELSE BeginAttempt(r, rp)

(***************************************************************************)
(* RedditMonitorService (reddit-monitors): its fields                      *)
(***************************************************************************)
\* private lastProcessedPostId: string | null = null
NullId == 0

\* The posts of the subreddit: RedditPost.data.id.
PostIds == {1, 2, 3}

\* The RedditMonitorService after construction, with no check made yet.
NewMonitor ==
  [lastProcessedPostId |-> NullId,
   checks |-> 0,
   pending |-> 0,
   found |-> [id \in PostIds |-> 0]]

(***************************************************************************)
(* The initial state: the services are constructed, nothing has run.       *)
(***************************************************************************)
Init ==
  /\ phase = "constructed"
  /\ pairs \in Configs
  /\ initIdx = 0
  /\ recentPosts = [a \in Accounts |-> NoCache]
  /\ lastCheckedTweets = [a \in Accounts |-> NoEntry]
  /\ pairInd = 0
  /\ timerOn = FALSE
  /\ cycles = [c \in Slots |-> NoCycle]
  /\ started = 0
  /\ store = [a \in Accounts |-> [id \in ItemIds(a) \cup LongItemIds(a) |-> "none"]]
  /\ created = [id \in AllIds \cup LongItemIds("srcA") |-> 0]
  /\ insCount = [a \in Accounts |-> 0]
  /\ firstIns = [a \in Accounts |-> NoText]
  /\ lastEnd = "never"
  /\ dupCall = NoCall
  /\ poster = NoPost
  /\ factory = [browser |-> 0, scrapers |-> <<>>]
  /\ adapters = <<>>
  /\ sessions = <<>>
  /\ calls = <<>>
  /\ cleanups = <<>>
  /\ fetches = <<>>
  /\ exited = FALSE
  /\ stored = NoStored
  /\ fetchLog = <<>>
  /\ newReports = [id \in AllIds \cup LongItemIds("srcA") |-> 0]
  /\ reddit = NewMonitor

(***************************************************************************)
(* main.ts runAgents and BlueskyService.initialize                         *)
(***************************************************************************)
HistoriesFor(a, long) == IF long THEN LongHistories(a) ELSE Histories(a)

\* One iteration of initialize: login, then loadRecentPosts, which keeps the
\* feed's texts or, when the profile or feed request fails, an empty list.
InitializeWith(histories) ==
  /\ phase = "constructed"
  /\ initIdx < Len(pairs)
  /\ LET a == pairs[initIdx + 1] IN
       \E loaded \in {LoadedPosts(h) : h \in histories[a]} \cup {<<>>} :
         recentPosts' = [recentPosts EXCEPT ![a] = loaded]
  /\ initIdx' = initIdx + 1
  /\ UNCHANGED <<reddit, regVars, newReports, stored, fetchLog, dupCall, poster, phase, pairs, lastCheckedTweets, pairInd,
                 timerOn, cycles, started, store, created, insCount, firstIns,
                 lastEnd>>

InitializeFrom(long) ==
  InitializeWith([a \in Accounts |-> HistoriesFor(a, long)])

InitializePair == InitializeFrom(FALSE)

\* bsky.login rejects: initialize rejects and runAgents never starts the agent.
InitializeFail ==
  /\ phase = "constructed"
  /\ initIdx < Len(pairs)
  /\ phase' = "aborted"
  /\ UNCHANGED <<reddit, regVars, newReports, stored, fetchLog, dupCall, poster, pairs, initIdx, recentPosts, lastCheckedTweets, pairInd,
                 timerOn, cycles, started, store, created, insCount, firstIns, lastEnd>>

\* agent.start(): the first checkAndPost, for pair 0, is called and awaited.
Start ==
  /\ phase = "constructed"
  /\ initIdx = Len(pairs)
  /\ phase' = "running"
  /\ pairInd' = 1
  /\ cycles' = [cycles EXCEPT ![1] = NewCycle(pairs[1])]
  /\ started' = 1
  /\ UNCHANGED <<reddit, regVars, newReports, stored, fetchLog, dupCall, poster, pairs, initIdx, recentPosts, lastCheckedTweets, timerOn,
                 store, created, insCount, firstIns, lastEnd>>

\* As WrapPairInd, going back to the first pair at every tick.
AlwaysFirstPair(ind, numAccts) == 0

\* if (pairInd >= numAccts) pairInd = 0;
WrapPairInd(ind, numAccts) == IF ind >= numAccts THEN 0 ELSE ind

\* The setInterval callback: checkAndPost for the next pair, not awaited.
Tick ==
  /\ phase = "running"
  /\ timerOn
  /\ started < MaxCycles
  /\ \E c \in Slots :
       /\ cycles[c].pc = "idle"
       /\ \A d \in Slots : d < c => cycles[d].pc # "idle"
       /\ LET ind == WrapPairInd(pairInd, Len(pairs)) IN
            /\ cycles' = [cycles EXCEPT ![c] = NewCycle(pairs[ind + 1])]
            /\ pairInd' = ind + 1
  /\ started' = started + 1
  /\ UNCHANGED <<reddit, regVars, newReports, stored, fetchLog, dupCall, poster, phase, pairs, initIdx, recentPosts, lastCheckedTweets,
                 timerOn, store, created, insCount, firstIns, lastEnd>>

(***************************************************************************)
(* checkAndPost, one action per segment between awaits                     *)
(***************************************************************************)
\* start() resumes after the first checkAndPost and calls setInterval.
TimerAfter(r) == timerOn \/ r.pc = "idle"

\* How the invocation that ended last ended.
EndAfter(r) == IF r.pc = "idle" THEN "completed" ELSE lastEnd

\* getLatestTweets resolves: findNewTweets runs and is awaited.
FetchOk(c) ==
  /\ phase = "running"
  /\ cycles[c].pc = "fetching"
  /\ LET a == cycles[c].pair IN
       \E latestTweets \in Feeds(a) :
         /\ cycles' = [cycles EXCEPT ![c] =
              [@ EXCEPT !.pc = "diffed",
                        !.latest = latestTweets,
                        !.newTweets = FindNewTweets(lastCheckedTweets[a], latestTweets)]]
         /\ lastCheckedTweets' = [lastCheckedTweets EXCEPT ![a] =
              SnapshotAfter(lastCheckedTweets[a], latestTweets)]
         /\ newReports' = ReportsAfter(newReports, a, latestTweets,
                                       FindNewTweets(lastCheckedTweets[a], latestTweets))
  /\ UNCHANGED <<reddit, regVars, stored, fetchLog, dupCall, poster, phase, pairs, initIdx, recentPosts, pairInd, timerOn,
                 started, store, created, insCount, firstIns, lastEnd>>

\* As CatchCycleError, leaving the invocation where it failed.
CatchAndStay(r) == r

\* The outer catch of checkAndPost: the error is logged, the cycle is over.
CatchCycleError(r) == EndCycle(r)

\* As PhaseAfterError, with the error rethrown to the timer callback.
PhaseAfterRethrow(p) == "crashed"

\* The catch does not rethrow: checkAndPost resolves, nothing reaches the
\* caller (start(), or the timer callback) and the process goes on.
PhaseAfterError(p) == p

\* As SnapshotsAfterFailedFetch, with the failed fetch taken as a fetch that
\* shows no item.
SnapshotsAfterEmptyFetch(snapshots, a) == [snapshots EXCEPT ![a] = <<>>]

\* The throw of getLatestTweets leaves the try block before findNewTweets is
\* called: the snapshots stay as they are.
SnapshotsAfterFailedFetch(snapshots, a) == snapshots

\* getLatestTweets rejects.
FetchFail(c) ==
  /\ phase = "running"
  /\ cycles[c].pc = "fetching"
  /\ cycles' = [cycles EXCEPT ![c] = CatchCycleError(@)]
  /\ lastCheckedTweets' = SnapshotsAfterFailedFetch(lastCheckedTweets, cycles[c].pair)
  /\ lastEnd' = "fetchFailed"
  /\ phase' = PhaseAfterError(phase)
  /\ timerOn' = TimerAfter(cycles'[c])
  /\ UNCHANGED <<reddit, regVars, newReports, stored, fetchLog, dupCall, poster, pairs, initIdx, recentPosts,
                 pairInd, started, store, created, insCount, firstIns>>

\* The duplicate-detection loop, the reverse, and the first iteration of the
\* posting loop up to its await.
Filter(c) ==
  /\ phase = "running"
  /\ cycles[c].pc = "diffed"
  /\ LET r == cycles[c]
         toPost == CandidatesToPost(recentPosts, r.pair, r.newTweets)
     IN cycles' = [cycles EXCEPT ![c] =
          ContinueLoop([r EXCEPT !.latest = <<>>,
                                 !.newTweets = <<>>,
                                 !.toPost = toPost,
                                 !.idx = 1,
                                 !.posted = [i \in 1..Len(toPost) |-> "none"]],
                       recentPosts)]
  /\ lastEnd' = EndAfter(cycles'[c])
  /\ timerOn' = TimerAfter(cycles'[c])
  /\ UNCHANGED <<reddit, regVars, newReports, stored, fetchLog, dupCall, poster, phase, pairs, initIdx, recentPosts, lastCheckedTweets,
                 pairInd, started, store, created, insCount, firstIns>>

\* As CacheAfterPost, on the cache of every account.
CacheAfterPostAll(rp, a, text) == [b \in Accounts |-> RecordPost(rp[b], text)]

\* The tail of postTweet on the map: this.recentPosts.get(sourceAccount) is
\* the one list that is changed.
CacheAfterPost(rp, a, text) == [rp EXCEPT ![a] = RecordPost(@, text)]

\* createPost resolves: the text is recorded in the cache, the tweet is marked
\* posted, saveTweet is called.
CreatePostOk(c) ==
  /\ phase = "running"
  /\ cycles[c].pc = "creating"
  /\ LET r == cycles[c]
         a == r.pair
         id == r.toPost[r.idx]
     IN /\ recentPosts' = CacheAfterPost(recentPosts, a, TextOf(id))
        /\ created' = [created EXCEPT ![id] = Min(@ + 1, MaxCycles)]
        /\ cycles' = [cycles EXCEPT ![c] =
             [r EXCEPT !.pc = "saving",
                       !.posted[r.idx] = "succeeded",
                       !.events = Append(@, <<"posted", id>>)]]
  /\ UNCHANGED <<reddit, regVars, newReports, stored, fetchLog, dupCall, poster, phase, pairs, initIdx, lastCheckedTweets, pairInd, timerOn,
                 started, store, insCount, firstIns, lastEnd>>

\* createPost rejects: the inner catch marks the tweet failed, saveTweet is
\* called.
CreatePostFail(c) ==
  /\ phase = "running"
  /\ cycles[c].pc = "creating"
  /\ LET r == cycles[c]
         id == r.toPost[r.idx]
     IN cycles' = [cycles EXCEPT ![c] =
          [r EXCEPT !.pc = "saving",
                    !.posted[r.idx] = "failed",
                    !.events = Append(@, <<"failed", id>>)]]
  /\ UNCHANGED <<reddit, regVars, newReports, stored, fetchLog, dupCall, poster, phase, pairs, initIdx, recentPosts, lastCheckedTweets,
                 pairInd, timerOn, started, store, created, insCount, firstIns, lastEnd>>

\* saveTweet resolves: the loop goes on with the next candidate.
SaveOk(c) ==
  /\ phase = "running"
  /\ cycles[c].pc = "saving"
  /\ LET r == cycles[c]
         id == r.toPost[r.idx]
     IN /\ store' = SaveTweet(store, r.pair, id, r.posted[r.idx])
        /\ cycles' = [cycles EXCEPT ![c] =
             ContinueLoop([r EXCEPT !.idx = @ + 1,
                                    !.events = Append(@, <<"saved", id>>)],
                          recentPosts)]
  /\ lastEnd' = EndAfter(cycles'[c])
  /\ timerOn' = TimerAfter(cycles'[c])
  /\ UNCHANGED <<reddit, regVars, newReports, stored, fetchLog, dupCall, poster, phase, pairs, initIdx, recentPosts, lastCheckedTweets,
                 pairInd, started, created, insCount, firstIns>>

\* saveTweet rejects: nothing inside the loop catches it, the outer catch does.
SaveFail(c) ==
  /\ phase = "running"
  /\ cycles[c].pc = "saving"
  /\ cycles' = [cycles EXCEPT ![c] = CatchCycleError(@)]
  /\ lastEnd' = "saveFailed"
  /\ phase' = PhaseAfterError(phase)
  /\ timerOn' = TimerAfter(cycles'[c])
  /\ UNCHANGED <<reddit, regVars, newReports, stored, fetchLog, dupCall, poster, pairs, initIdx, recentPosts, lastCheckedTweets,
                 pairInd, started, store, created, insCount, firstIns>>

Next ==
  \/ InitializePair
  \/ InitializeFail
  \/ Start
  \/ Tick
  \/ \E c \in Slots : FetchOk(c)
  \/ \E c \in Slots : FetchFail(c)
  \/ \E c \in Slots : Filter(c)
  \/ \E c \in Slots : CreatePostOk(c)
  \/ \E c \in Slots : CreatePostFail(c)
  \/ \E c \in Slots : SaveOk(c)
  \/ \E c \in Slots : SaveFail(c)

Spec == Init /\ [][Next]_vars

(***************************************************************************)
(* The Recent-Destination-Posts cache on its own: initialize, with         *)
(* destination histories longer than the feed request, then any run of     *)
(* postTweet calls whose createPost resolves.                              *)
(***************************************************************************)
\* The text of the k-th post recorded for an account, in one of three
\* variants: the texts of different posts differ.
PostText(k, v) == <<"n">> \o Rep("y", k) \o <<v>>

CacheInitializePair == InitializeFrom(TRUE)

\* postTweet after createPost has resolved: the text is recorded.
CacheRecordPost ==
  /\ phase = "constructed"
  /\ initIdx = Len(pairs)
  /\ \E a \in Range(pairs), v \in {"a", "b", "c"} :
       /\ insCount[a] <= FEED_LIMIT
       /\ LET text == PostText(insCount[a] + 1, v) IN
            /\ recentPosts' = [recentPosts EXCEPT ![a] = RecordPost(@, text)]
            /\ firstIns' = [firstIns EXCEPT ![a] = IF @ = NoText THEN text ELSE @]
       /\ insCount' = [insCount EXCEPT ![a] = @ + 1]
  /\ UNCHANGED <<reddit, regVars, newReports, stored, fetchLog, dupCall, poster, phase, pairs, initIdx, lastCheckedTweets, pairInd, timerOn,
                 cycles, started, store, created, lastEnd>>

NextCache ==
  \/ CacheInitializePair
  \/ CacheRecordPost

SpecCache == Init /\ [][NextCache]_vars

(***************************************************************************)
(* The Duplicate Guard on its own: initialize, then any calls of           *)
(* isDuplicateWithRecentBlueskyPosts.                                      *)
(***************************************************************************)
GuardInitializePair == InitializeWith([a \in Accounts |-> GuardHistories(a)])

\* isDuplicateWithRecentBlueskyPosts(text, sourceAccount) is called and
\* returns.
IsDuplicateCall ==
  /\ \E text \in GuardTexts, a \in Accounts :
       dupCall' = [called |-> TRUE, text |-> text, account |-> a,
                   result |-> IsDuplicateWithRecentBlueskyPosts(recentPosts, text, a)]
  /\ UNCHANGED <<reddit, regVars, newReports, stored, fetchLog, poster, phase, pairs, initIdx, recentPosts, lastCheckedTweets,
                 pairInd, timerOn, cycles, started, store, created, insCount,
                 firstIns, lastEnd>>

NextGuard ==
  \/ GuardInitializePair
  \/ IsDuplicateCall

SpecGuard == Init /\ [][NextGuard]_vars

(***************************************************************************)
(* The Thread Composer on its own: one createPost call, from the call to   *)
(* its return or its throw.                                                *)
(***************************************************************************)
\* createPost(postData) is called: the one-second delay is awaited.
CreatePostCall ==
  /\ poster.pc = "idle"
  /\ \E text \in PosterTexts, m \in MediaKinds :
       poster' = [NoPost EXCEPT !.pc = "delay", !.text = text, !.media = m]
  /\ UNCHANGED <<reddit, regVars, newReports, stored, fetchLog, dupCall, phase, pairs, initIdx, recentPosts, lastCheckedTweets,
                 pairInd, timerOn, cycles, started, store, created, insCount,
                 firstIns, lastEnd>>

\* After the delay: the text is split, the embed is prepared, and the first
\* createSinglePost is called. With no chunk at all, textChunks[0].length
\* throws and the catch rethrows.
CreatePostPrepare ==
  /\ poster.pc = "delay"
  /\ \E uploadOk \in BOOLEAN :
       LET chunks == SplitTextIntoChunks(poster.text)
           r == [poster EXCEPT !.chunks = chunks,
                               !.embed = PrepareEmbed(poster.media, uploadOk)]
       IN poster' =
            IF chunks = <<>> THEN [r EXCEPT !.pc = "failed"]
            ELSE IF IsThread(chunks)
                 THEN [r EXCEPT !.pc = "posting", !.isThread = TRUE,
                                !.request = ThreadRequest(r, 0)]
                 ELSE [r EXCEPT !.pc = "posting", !.request = SingleRequest(r)]
  /\ UNCHANGED <<reddit, regVars, newReports, stored, fetchLog, dupCall, phase, pairs, initIdx, recentPosts, lastCheckedTweets,
                 pairInd, timerOn, cycles, started, store, created, insCount,
                 firstIns, lastEnd>>

\* agent.post resolves with the reference of the new post: the thread loop
\* keeps it as parent (and as root, for the first post) and goes on with the
\* next chunk, or createPost returns.
SubmitPostOk ==
  /\ poster.pc = "posting"
  /\ LET ref == NewRef(Len(poster.posts) + 1)
         r == [poster EXCEPT
                 !.posts = Append(@, [text |-> poster.request.text,
                                      embed |-> poster.request.embed,
                                      reply |-> poster.request.reply,
                                      ref |-> ref]),
                 !.rootRef = IF poster.isThread /\ poster.i = 0 THEN ref ELSE @,
                 !.parentRef = IF poster.isThread THEN ref ELSE @]
     IN poster' =
          IF poster.isThread /\ poster.i < Len(poster.chunks) - 1
          THEN [r EXCEPT !.i = @ + 1, !.request = ThreadRequest(r, poster.i + 1)]
          ELSE [r EXCEPT !.pc = "done"]
  /\ UNCHANGED <<reddit, regVars, newReports, stored, fetchLog, dupCall, phase, pairs, initIdx, recentPosts, lastCheckedTweets,
                 pairInd, timerOn, cycles, started, store, created, insCount,
                 firstIns, lastEnd>>

\* detectFacets or agent.post rejects: the catch logs and rethrows.
SubmitPostFail ==
  /\ poster.pc = "posting"
  /\ poster' = [poster EXCEPT !.pc = "failed"]
  /\ UNCHANGED <<reddit, regVars, newReports, stored, fetchLog, dupCall, phase, pairs, initIdx, recentPosts, lastCheckedTweets,
                 pairInd, timerOn, cycles, started, store, created, insCount,
                 firstIns, lastEnd>>

NextPoster ==
  \/ CreatePostCall
  \/ CreatePostPrepare
  \/ SubmitPostOk
  \/ SubmitPostFail

SpecPoster == Init /\ [][NextPoster]_vars

(***************************************************************************)
(* The schedule without an end: the timer keeps firing, every await of a   *)
(* cycle settles, the sources show nothing to post. The counters stop at   *)
(* MaxCycles.                                                              *)
(***************************************************************************)
\* The setInterval callback, as Tick, at any time.
SchedTick ==
  /\ phase = "running"
  /\ timerOn
  /\ \E c \in Slots :
       /\ cycles[c].pc = "idle"
       /\ \A d \in Slots : d < c => cycles[d].pc # "idle"
       /\ LET ind == WrapPairInd(pairInd, Len(pairs)) IN
            /\ cycles' = [cycles EXCEPT ![c] = NewCycle(pairs[ind + 1])]
            /\ pairInd' = ind + 1
  /\ started' = Min(started + 1, MaxCycles)
  /\ UNCHANGED <<reddit, regVars, newReports, stored, fetchLog, dupCall, poster, phase, pairs, initIdx, recentPosts,
                 lastCheckedTweets, timerOn, store, created, insCount, firstIns,
                 lastEnd>>

\* getLatestTweets resolves, as FetchOk, for sources that show no item: the
\* cycle then ends after the duplicate-detection loop.
SchedFetchOk(c) == FetchOk(c) /\ cycles'[c].latest = <<>>

\* An await of a cycle settles, one way or the other.
CycleStep ==
  \E c \in Slots :
    \/ SchedFetchOk(c)
    \/ FetchFail(c)
    \/ Filter(c)

NextSched ==
  \/ InitializePair
  \/ InitializeFail
  \/ Start
  \/ SchedTick
  \/ CycleStep

SpecSched ==
  Init /\ [][NextSched]_vars /\ WF_vars(SchedTick) /\ WF_vars(CycleStep)

(***************************************************************************)
(* ScraperFactory (scraper-factory.ts) and the adapters it creates.  Every  *)
(* call of an async method is a record of `calls`, `cleanups` or `fetches`; *)
(* an action is the segment of one call between two awaits.  A session is   *)
(* what one puppeteer.connect() resolved to; the number of a session is its *)
(* handle, 0 stands for null.                                               *)
(***************************************************************************)
SupportedPlatforms == {"twitter", "nitter", "truthsocial"}

\* The identifiers the callers pass: the supported ones and one that the
\* switch does not know.
PlatformTags == SupportedPlatforms \cup {"mastodon"}

NoScraper == 0

\* Map.prototype.has / get / set on `scrapers`, a Map kept in insertion order:
\* a sequence of [platform, scraper] entries.
MapHas(m, p) == \E i \in 1..Len(m) : m[i].platform = p

MapGet(m, p) == m[CHOOSE i \in 1..Len(m) : m[i].platform = p].scraper

MapSet(m, p, s) ==
  IF MapHas(m, p)
  THEN [i \in 1..Len(m) |->
          IF m[i].platform = p THEN [platform |-> p, scraper |-> s] ELSE m[i]]
  ELSE Append(m, [platform |-> p, scraper |-> s])

\* puppeteer.connect() resolved: a new session, held by `owner`.
NewSession(owner) ==
  [owner |-> owner, closes |-> 0, released |-> FALSE, closedAgain |-> FALSE,
   pages |-> 0]

\* A getScraperForPlatform call that awaits the factory's own connect.
NewCall(p) ==
  [platform |-> p, pc |-> "connect", scraper |-> NoScraper,
   result |-> NoScraper, error |-> "none"]

\* As ResolveScraper, with a switch that has no default branch.
ResolveScraperAnyTag(call, scrapers, ads) ==
  IF MapHas(scrapers, call.platform)
  THEN [call EXCEPT !.pc = "returned", !.result = MapGet(scrapers, call.platform)]
  ELSE [call EXCEPT !.pc = "initialize", !.scraper = Len(ads) + 1]

\* getScraperForPlatform from the has() test to its next await, return or
\* throw: the cached adapter, or the switch and the call of initialize().
ResolveScraper(call, scrapers, ads) ==
  IF MapHas(scrapers, call.platform)
  THEN [call EXCEPT !.pc = "returned", !.result = MapGet(scrapers, call.platform)]
  ELSE IF call.platform \notin SupportedPlatforms
       THEN [call EXCEPT !.pc = "failed", !.error = "Unsupported platform"]
       ELSE [call EXCEPT !.pc = "initialize", !.scraper = Len(ads) + 1]

\* new XxxScraperService(): the adapter objects after the segment.
ConstructedAfter(call, ads) ==
  IF call.pc = "initialize"
  THEN Append(ads, [platform |-> call.platform, browser |-> 0])
  ELSE ads

\* A caller calls getScraperForPlatform(p).  With no session yet the call
\* awaits puppeteer.connect(); otherwise it goes on to the has() test.
GetScraperForPlatform(p) ==
  /\ ~exited
  /\ Len(calls) < MaxCalls
  /\ LET call == IF factory.browser = 0
                 THEN NewCall(p)
                 ELSE ResolveScraper(NewCall(p), factory.scrapers, adapters)
     IN /\ calls' = Append(calls, call)
        /\ adapters' = ConstructedAfter(call, adapters)
  /\ UNCHANGED <<reddit, agentVars, factory, sessions, cleanups, fetches, exited>>

\* The factory's connect resolves: this.browser is assigned, the call goes on.
ConnectOk(c) ==
  /\ ~exited
  /\ calls[c].pc = "connect"
  /\ sessions' = Append(sessions, NewSession("factory"))
  /\ factory' = [factory EXCEPT !.browser = Len(sessions) + 1]
  /\ LET call == ResolveScraper(calls[c], factory.scrapers, adapters)
     IN /\ calls' = [calls EXCEPT ![c] = call]
        /\ adapters' = ConstructedAfter(call, adapters)
  /\ UNCHANGED <<reddit, agentVars, cleanups, fetches, exited>>

\* The factory's connect rejects: the call rejects with that error.
ConnectFail(c) ==
  /\ ~exited
  /\ calls[c].pc = "connect"
  /\ calls' = [calls EXCEPT ![c] = [@ EXCEPT !.pc = "failed",
                                             !.error = "connect failed"]]
  /\ UNCHANGED <<reddit, agentVars, factory, adapters, sessions, cleanups, fetches, exited>>

\* initialize() resolves: the adapter's this.browser is the session of its
\* own puppeteer.connect(); then scrapers.set(platform, scraper) and return.
ScraperInitializeOk(c) ==
  /\ ~exited
  /\ calls[c].pc = "initialize"
  /\ sessions' = Append(sessions, NewSession("adapter"))
  /\ adapters' = [adapters EXCEPT ![calls[c].scraper].browser = Len(sessions) + 1]
  /\ factory' = [factory EXCEPT
                   !.scrapers = MapSet(@, calls[c].platform, calls[c].scraper)]
  /\ calls' = [calls EXCEPT ![c] = [@ EXCEPT !.pc = "returned",
                                             !.result = calls[c].scraper]]
  /\ UNCHANGED <<reddit, agentVars, cleanups, fetches, exited>>

\* initialize() rejects: the call rejects, nothing is cached.
ScraperInitializeFail(c) ==
  /\ ~exited
  /\ calls[c].pc = "initialize"
  /\ calls' = [calls EXCEPT ![c] = [@ EXCEPT !.pc = "failed",
                                             !.error = "connect failed"]]
  /\ UNCHANGED <<reddit, agentVars, factory, adapters, sessions, cleanups, fetches, exited>>

\* The entry of `scrapers` at or after position i whose adapter has a
\* browser: XxxScraperService.cleanup does nothing for the others.
NextToClose(f, ads, i) ==
  MinOf({j \in i..Len(f.scrapers) : ads[f.scrapers[j].scraper].browser # 0}
        \cup {Len(f.scrapers) + 1})

\* XxxScraperService.cleanup: if (this.browser) await this.browser.close().
CloseIssued(ss, b) ==
  [ss EXCEPT ![b].closes = @ + 1, ![b].closedAgain = @ \/ ss[b].released]

\* ScraperFactory.cleanup from position i of the loop to its next await, or
\* to its end.
CleanupFrom(cl, f, ads, i) ==
  LET j == NextToClose(f, ads, i) IN
  IF j > Len(f.scrapers)
  THEN [cl EXCEPT !.pc = "done", !.idx = j, !.session = 0]
  ELSE [cl EXCEPT !.pc = "closing", !.idx = j,
                  !.session = ads[f.scrapers[j].scraper].browser]

\* The sessions after that segment: close() was called on one of them.
SessionsAfter(cl, ss) ==
  IF cl.pc = "closing" THEN CloseIssued(ss, cl.session) ELSE ss

NewCleanup(from) == [from |-> from, pc |-> "start", idx |-> 0, session |-> 0]

\* A caller calls cleanup() on the factory.
Cleanup ==
  /\ ~exited
  /\ Len(cleanups) < MaxCleanups
  /\ LET cl == CleanupFrom(NewCleanup("caller"), factory, adapters, 1) IN
       /\ cleanups' = Append(cleanups, cl)
       /\ sessions' = SessionsAfter(cl, sessions)
  /\ UNCHANGED <<reddit, agentVars, factory, adapters, calls, fetches, exited>>

\* As ExitAfter, for a handler that does not await the cleanup.
ExitWithoutAwait(cl) == cl.from = "sigint"

\* The SIGINT handler of runAgents: await agent.cleanup(); process.exit(0).
ExitAfter(cl) == cl.from = "sigint" /\ cl.pc = "done"

\* browser.close() resolves: the session is released, the loop goes on.
CloseOk(k) ==
  /\ ~exited
  /\ cleanups[k].pc = "closing"
  /\ LET released == [sessions EXCEPT ![cleanups[k].session].released = TRUE]
         cl == CleanupFrom(cleanups[k], factory, adapters, cleanups[k].idx + 1)
     IN /\ cleanups' = [cleanups EXCEPT ![k] = cl]
        /\ sessions' = SessionsAfter(cl, released)
        /\ exited' = ExitAfter(cl)
  /\ UNCHANGED <<reddit, agentVars, factory, adapters, calls, fetches>>

NextRegistry ==
  \/ \E p \in PlatformTags : GetScraperForPlatform(p)
  \/ \E c \in 1..Len(calls) :
       \/ ConnectOk(c)
       \/ ConnectFail(c)
       \/ ScraperInitializeOk(c)
       \/ ScraperInitializeFail(c)
  \/ Cleanup
  \/ \E k \in 1..Len(cleanups) : CloseOk(k)

SpecRegistry == Init /\ [][NextRegistry]_vars

(***************************************************************************)
(* The process of runAgents with its SIGINT handler: the agent's schedule  *)
(* (sources that show nothing to post), two callers of the factory, and    *)
(* the interrupt signal.  After process.exit nothing runs.                 *)
(***************************************************************************)
\* SIGINT arrives once runAgents has registered the handler, which calls
\* agent.cleanup(), that is the factory's cleanup(), and awaits it.
Sigint ==
  /\ ~exited
  /\ phase = "running"
  /\ Len(cleanups) < MaxCleanups
  /\ LET cl == CleanupFrom(NewCleanup("sigint"), factory, adapters, 1) IN
       /\ cleanups' = Append(cleanups, cl)
       /\ sessions' = SessionsAfter(cl, sessions)
       /\ exited' = ExitAfter(cl)
  /\ UNCHANGED <<reddit, agentVars, factory, adapters, calls, fetches>>

\* The adapters are resolved by at most two calls, for two of the platforms.
ResolveStep ==
  \/ \E p \in {"nitter", "truthsocial"} :
       Len(calls) < 2 /\ GetScraperForPlatform(p)
  \/ \E c \in 1..Len(calls) : ConnectOk(c) \/ ScraperInitializeOk(c)

NextExit ==
  \/ ~exited /\ NextSched
  \/ ResolveStep
  \/ Sigint
  \/ \E k \in 1..Len(cleanups) : CloseOk(k)

SpecExit == Init /\ [][NextExit]_vars

(***************************************************************************)
(* getLatestTweets of the adapters (NitterScraperService,                   *)
(* TruthSocialScraperService).  sessions[b].pages counts the page contexts  *)
(* open in session b.                                                       *)
(***************************************************************************)
\* The adapters the factory has handed to a caller.
HandedOut == {calls[c].result : c \in {d \in 1..Len(calls) : calls[d].pc = "returned"}}

\* getLatestTweets up to its first await: the throw without a browser, or
\* the request of the page.
NewFetch(a) ==
  [scraper |-> a,
   pc |-> IF adapters[a].browser = 0 THEN "failed" ELSE "newPage",
   outcome |-> IF adapters[a].browser = 0 THEN "failed" ELSE "none",
   round |-> 1, imgWaiting |-> 0, imgOpen |-> 0]

SessionOf(f) == adapters[fetches[f].scraper].browser

GetLatestTweets(a) ==
  /\ Len(fetches) < MaxFetches
  /\ a \in HandedOut
  /\ fetches' = Append(fetches, NewFetch(a))
  /\ UNCHANGED <<reddit, agentVars, factory, adapters, sessions, calls, cleanups, exited>>

\* browser.newPage() resolves: the try block is entered.
NewPageOk(f) ==
  /\ fetches[f].pc = "newPage"
  /\ sessions' = [sessions EXCEPT ![SessionOf(f)].pages = @ + 1]
  /\ fetches' = [fetches EXCEPT ![f].pc = "loading"]
  /\ UNCHANGED <<reddit, agentVars, factory, adapters, calls, cleanups, exited>>

\* browser.newPage() rejects, before the try block: the call rejects.
NewPageFail(f) ==
  /\ fetches[f].pc = "newPage"
  /\ fetches' = [fetches EXCEPT ![f].pc = "failed", ![f].outcome = "failed"]
  /\ UNCHANGED <<reddit, agentVars, factory, adapters, sessions, calls, cleanups, exited>>

\* As Finally, for a try block without the finally: the page is closed on
\* the way of the return only.
CloseOnReturnOnly(r, outcome) ==
  IF outcome = "ok"
  THEN [r EXCEPT !.pc = "closing", !.outcome = outcome]
  ELSE [r EXCEPT !.pc = "failed", !.outcome = outcome]

\* finally { await page.close(); }: entered on the return and on the throw.
Finally(r, outcome) == [r EXCEPT !.pc = "closing", !.outcome = outcome]

\* The awaits of the try block up to the extraction resolve (goto,
\* waitForSelector, evaluate).  The Nitter adapter returns its tweets; the
\* Truth Social adapter requests one page for every image and thumbnail of
\* the posts, all at once (Promise.all).
LoadOk(f) ==
  /\ fetches[f].pc = "loading"
  /\ IF adapters[fetches[f].scraper].platform = "truthsocial"
     THEN \E n \in 0..MaxImages :
            fetches' = [fetches EXCEPT ![f].pc = "media", ![f].imgWaiting = n]
     ELSE fetches' = [fetches EXCEPT ![f] = Finally(@, "ok")]
  /\ UNCHANGED <<reddit, agentVars, factory, adapters, sessions, calls, cleanups, exited>>

\* One of those awaits rejects (navigation error, selector timeout).
LoadFail(f) ==
  /\ fetches[f].pc = "loading"
  /\ fetches' = [fetches EXCEPT ![f] = Finally(@, "failed")]
  /\ UNCHANGED <<reddit, agentVars, factory, adapters, sessions, calls, cleanups, exited>>

\* extractTweetsFromPage of the Truth Social adapter: newPage() for an image
\* resolves.
ImagePageOk(f) ==
  /\ fetches[f].pc = "media"
  /\ fetches[f].imgWaiting > 0
  /\ fetches' = [fetches EXCEPT ![f].imgWaiting = @ - 1, ![f].imgOpen = @ + 1]
  /\ sessions' = [sessions EXCEPT ![SessionOf(f)].pages = @ + 1]
  /\ UNCHANGED <<reddit, agentVars, factory, adapters, calls, cleanups, exited>>

\* newPage() for an image rejects: caught, the image is null.
ImagePageFail(f) ==
  /\ fetches[f].pc = "media"
  /\ fetches[f].imgWaiting > 0
  /\ fetches' = [fetches EXCEPT ![f].imgWaiting = @ - 1]
  /\ UNCHANGED <<reddit, agentVars, factory, adapters, sessions, calls, cleanups, exited>>

\* The capture of an image ends, with the image or with an error: finally
\* { await imagePage.close(); }.
ImagePageClose(f) ==
  /\ fetches[f].pc = "media"
  /\ fetches[f].imgOpen > 0
  /\ fetches' = [fetches EXCEPT ![f].imgOpen = @ - 1]
  /\ sessions' = [sessions EXCEPT ![SessionOf(f)].pages = @ - 1]
  /\ UNCHANGED <<reddit, agentVars, factory, adapters, calls, cleanups, exited>>

\* Promise.all resolves.  After the first extraction the page is scrolled and
\* extracted again; after the second the tweets are returned.
MediaDone(f) ==
  /\ fetches[f].pc = "media"
  /\ fetches[f].imgWaiting = 0
  /\ fetches[f].imgOpen = 0
  /\ fetches' = [fetches EXCEPT ![f] =
       IF @.round = 1
       THEN [@ EXCEPT !.pc = "loading", !.round = 2]
       ELSE Finally(@, "ok")]
  /\ UNCHANGED <<reddit, agentVars, factory, adapters, sessions, calls, cleanups, exited>>

\* page.close() resolves: the call returns the tweets, or rejects with the
\* error of the try block.
PageClose(f) ==
  /\ fetches[f].pc = "closing"
  /\ sessions' = [sessions EXCEPT ![SessionOf(f)].pages = @ - 1]
  /\ fetches' = [fetches EXCEPT ![f].pc =
       IF fetches[f].outcome = "ok" THEN "returned" ELSE "failed"]
  /\ UNCHANGED <<reddit, agentVars, factory, adapters, calls, cleanups, exited>>

NextFetch ==
  \/ ResolveStep
  \/ \E a \in 1..Len(adapters) : GetLatestTweets(a)
  \/ \E f \in 1..Len(fetches) :
       \/ NewPageOk(f)
       \/ NewPageFail(f)
       \/ LoadOk(f)
       \/ LoadFail(f)
       \/ ImagePageOk(f)
       \/ ImagePageFail(f)
       \/ ImagePageClose(f)
       \/ MediaDone(f)
       \/ PageClose(f)

SpecFetch == Init /\ [][NextFetch]_vars

(***************************************************************************)
(* CrossPostAgent.postStoredTweet, called once the services are             *)
(* initialized.  The Item Store is on disk: it holds what earlier runs of   *)
(* the process have saved.                                                  *)
(***************************************************************************)
\* An earlier run has saved the item with this outcome.
SavedEarlier(a, id, outcome) ==
  /\ phase = "constructed"
  /\ initIdx = 0
  /\ store[a][id] = "none"
  /\ store' = SaveTweet(store, a, id, outcome)
  /\ UNCHANGED <<reddit, regVars, newReports, stored, fetchLog, dupCall, poster, phase, pairs,
                 initIdx, recentPosts, lastCheckedTweets, pairInd, timerOn,
                 cycles, started, created, insCount, firstIns, lastEnd>>

\* postStoredTweet(config, tweetFile, sourceAccount) up to its first await:
\* the throw for an account without a pair, or the call of loadTweet.
PostStoredTweet(a, id) ==
  /\ phase = "constructed"
  /\ initIdx = Len(pairs)
  /\ stored.pc = "idle"
  /\ stored' =
       IF a \notin Range(pairs)
       THEN [NoStored EXCEPT !.pc = "threw", !.account = a, !.id = id]
       ELSE [NoStored EXCEPT !.pc = "loading", !.account = a, !.id = id]
  /\ UNCHANGED <<reddit, regVars, newReports, fetchLog, dupCall, poster, phase, pairs, initIdx,
                 recentPosts, lastCheckedTweets, pairInd, timerOn, cycles,
                 started, store, created, insCount, firstIns, lastEnd>>

\* The try block after `await postTweet`: on success the tweet is marked
\* posted and saveTweet is called; on failure the catch logs and returns
\* false.
AfterPostTweet(r, outcome) ==
  IF outcome = "failed"
  THEN [r EXCEPT !.pc = "returned", !.attempt = outcome, !.result = "false"]
  ELSE [r EXCEPT !.pc = "saving", !.attempt = outcome]

\* loadTweet resolves.  Without a record the call throws; otherwise
\* postTweet is called, which checks for a duplicate first: on a match it
\* returns without posting, otherwise it awaits createPost.
StoredLoaded ==
  /\ stored.pc = "loading"
  /\ stored' =
       IF store[stored.account][stored.id] = "none"
       THEN [stored EXCEPT !.pc = "threw"]
       ELSE IF IsDuplicateWithRecentBlueskyPosts(
                 recentPosts, TextOf(stored.id), stored.account)
            THEN AfterPostTweet(stored, "skipped")
            ELSE [stored EXCEPT !.pc = "creating"]
  /\ UNCHANGED <<reddit, regVars, newReports, fetchLog, dupCall, poster, phase, pairs, initIdx,
                 recentPosts, lastCheckedTweets, pairInd, timerOn, cycles,
                 started, store, created, insCount, firstIns, lastEnd>>

\* createPost resolves: postTweet records the text, the tweet is marked
\* posted, saveTweet is called.
StoredCreateOk ==
  /\ stored.pc = "creating"
  /\ recentPosts' = [recentPosts EXCEPT ![stored.account] =
                       RecordPost(@, TextOf(stored.id))]
  /\ created' = [created EXCEPT ![stored.id] = Min(@ + 1, MaxCycles)]
  /\ stored' = AfterPostTweet(stored, "succeeded")
  /\ UNCHANGED <<reddit, regVars, newReports, fetchLog, dupCall, poster, phase, pairs, initIdx,
                 lastCheckedTweets, pairInd, timerOn, cycles, started, store,
                 insCount, firstIns, lastEnd>>

\* createPost rejects.
StoredCreateFail ==
  /\ stored.pc = "creating"
  /\ stored' = AfterPostTweet(stored, "failed")
  /\ UNCHANGED <<reddit, regVars, newReports, fetchLog, dupCall, poster, phase, pairs, initIdx,
                 recentPosts, lastCheckedTweets, pairInd, timerOn, cycles,
                 started, store, created, insCount, firstIns, lastEnd>>

\* saveTweet resolves: the record is overwritten, the call returns true.
StoredSaveOk ==
  /\ stored.pc = "saving"
  /\ store' = SaveTweet(store, stored.account, stored.id, "succeeded")
  /\ stored' = [stored EXCEPT !.pc = "returned",
                              !.written = "succeeded",
                              !.result = "true"]
  /\ UNCHANGED <<reddit, regVars, newReports, fetchLog, dupCall, poster, phase, pairs, initIdx,
                 recentPosts, lastCheckedTweets, pairInd, timerOn, cycles,
                 started, created, insCount, firstIns, lastEnd>>

\* saveTweet rejects, inside the try: the catch logs and returns false.
StoredSaveFail ==
  /\ stored.pc = "saving"
  /\ stored' = [stored EXCEPT !.pc = "returned", !.result = "false"]
  /\ UNCHANGED <<reddit, regVars, newReports, fetchLog, dupCall, poster, phase, pairs, initIdx,
                 recentPosts, lastCheckedTweets, pairInd, timerOn, cycles,
                 started, store, created, insCount, firstIns, lastEnd>>

NextStored ==
  \/ \E a \in Accounts : \E id \in ItemIds(a) :
       \E outcome \in {"succeeded", "failed"} : SavedEarlier(a, id, outcome)
  \/ InitializePair
  \/ \E a \in Accounts : \E id \in ItemIds(a) : PostStoredTweet(a, id)
  \/ StoredLoaded
  \/ StoredCreateOk
  \/ StoredCreateFail
  \/ StoredSaveOk
  \/ StoredSaveFail

SpecStored == Init /\ [][NextStored]_vars

(***************************************************************************)
(* The agent as runAgents wires it: the object passed to the constructor   *)
(* as scraperService is the ScraperFactory, and checkAndPost calls         *)
(* getLatestTweets on that object.  Other callers may resolve adapters.    *)
(***************************************************************************)
\* loadMirrorConfigurations: the platform tag of a pair.
PlatformOf(a) == IF a = "srcA" THEN "nitter" ELSE "truthsocial"

\* The methods of the object that runAgents passes as scraperService.
FactoryMethods == {"getScraperForPlatform", "cleanup"}

\* this.scraperService.getLatestTweets(pair.twitter) in checkAndPost: the
\* receiver is the injected object whatever pair.platform is; no adapter is
\* resolved; the call of a method the object does not have throws a
\* TypeError, which the outer catch logs.
WiredFetch(a) ==
  [account |-> a, platform |-> PlatformOf(a), receiver |-> "ScraperFactory",
   adapter |-> NoScraper,
   outcome |-> IF "getLatestTweets" \in FactoryMethods
               THEN "called" ELSE "TypeError"]

\* agent.start(): the first checkAndPost ends in its catch, setInterval is
\* called.
WiredStart ==
  /\ ~exited
  /\ phase = "constructed"
  /\ initIdx = Len(pairs)
  /\ phase' = "running"
  /\ pairInd' = 1
  /\ started' = 1
  /\ timerOn' = TRUE
  /\ lastEnd' = "fetchFailed"
  /\ fetchLog' = Append(fetchLog, WiredFetch(pairs[1]))
  /\ UNCHANGED <<reddit, regVars, newReports, stored, dupCall, poster, pairs, initIdx, recentPosts,
                 lastCheckedTweets, cycles, store, created, insCount, firstIns>>

\* The setInterval callback: checkAndPost for the next pair ends in its
\* catch.
WiredTick ==
  /\ ~exited
  /\ phase = "running"
  /\ timerOn
  /\ started < MaxCycles
  /\ LET ind == WrapPairInd(pairInd, Len(pairs)) IN
       /\ pairInd' = ind + 1
       /\ fetchLog' = Append(fetchLog, WiredFetch(pairs[ind + 1]))
  /\ started' = started + 1
  /\ lastEnd' = "fetchFailed"
  /\ UNCHANGED <<reddit, regVars, newReports, stored, dupCall, poster, phase, pairs, initIdx,
                 recentPosts, lastCheckedTweets, timerOn, cycles, store, created,
                 insCount, firstIns>>

NextWired ==
  \/ InitializePair
  \/ WiredStart
  \/ WiredTick
  \/ ResolveStep

SpecWired == Init /\ [][NextWired]_vars

(***************************************************************************)
(* One check cycle with createPost followed chunk by chunk: the first      *)
(* checkAndPost, which start() awaits, for a source that shows items       *)
(* longer than a destination post. The destination accounts have no post   *)
(* when the process starts.                                                *)
(***************************************************************************)
\* What getLatestTweets can return here: newest first.
ThreadFeeds(a) ==
  IF a = "srcA" THEN {<<>>, <<5>>, <<6, 5>>, <<6, 1, 5>>} ELSE {<<>>, <<4>>}

\* initialize, as InitializePair, for destination accounts without posts.
ThreadInitializePair ==
  InitializePair /\ \A a \in Accounts : recentPosts'[a] \in {NoCache, <<>>}

\* getLatestTweets resolves, as FetchOk, with one of these feeds.
ThreadFetchOk(c) ==
  /\ phase = "running"
  /\ cycles[c].pc = "fetching"
  /\ LET a == cycles[c].pair IN
       \E latestTweets \in ThreadFeeds(a) :
         /\ cycles' = [cycles EXCEPT ![c] =
              [@ EXCEPT !.pc = "diffed",
                        !.latest = latestTweets,
                        !.newTweets = FindNewTweets(lastCheckedTweets[a], latestTweets)]]
         /\ lastCheckedTweets' = [lastCheckedTweets EXCEPT ![a] =
              SnapshotAfter(lastCheckedTweets[a], latestTweets)]
         /\ newReports' = ReportsAfter(newReports, a, latestTweets,
                                       FindNewTweets(lastCheckedTweets[a], latestTweets))
  /\ UNCHANGED <<reddit, regVars, stored, fetchLog, dupCall, poster, phase, pairs, initIdx, recentPosts, pairInd, timerOn,
                 started, store, created, insCount, firstIns, lastEnd>>

\* postTweet, past its duplicate check, calls createPost(tweet): the
\* one-second delay of createPost is awaited.
CreatePostEnter(c) ==
  /\ phase = "running"
  /\ cycles[c].pc = "creating"
  /\ poster.pc = "idle"
  /\ \E m \in MediaKinds :
       poster' = [NoPost EXCEPT !.pc = "delay",
                                !.text = TextOf(cycles[c].toPost[cycles[c].idx]),
                                !.media = m]
  /\ UNCHANGED <<reddit, regVars, newReports, stored, fetchLog, dupCall, phase, pairs, initIdx, recentPosts, lastCheckedTweets,
                 pairInd, timerOn, cycles, started, store, created, insCount,
                 firstIns, lastEnd>>

\* As CreatePostResolved, once the first post of the call is at the
\* destination.
ResolvedAfterFirstPost(p) == p.pc = "done" \/ (p.pc = "posting" /\ p.posts # <<>>)

\* The promise of createPost resolves when the call has returned, which is
\* after the thread loop (or the single createSinglePost).
CreatePostResolved(p) == p.pc = "done"

\* createPost resolves: as CreatePostOk, the text is recorded in the cache,
\* the tweet is marked posted, saveTweet is called. The posts of the call stay
\* at the destination.
CreatePostReturn(c) ==
  /\ phase = "running"
  /\ cycles[c].pc = "creating"
  /\ CreatePostResolved(poster)
  /\ poster' = [poster EXCEPT !.pc = "idle"]
  /\ LET r == cycles[c]
         a == r.pair
         id == r.toPost[r.idx]
     IN /\ recentPosts' = [recentPosts EXCEPT ![a] = RecordPost(@, TextOf(id))]
        /\ created' = [created EXCEPT ![id] = Min(@ + 1, MaxCycles)]
        /\ cycles' = [cycles EXCEPT ![c] =
             [r EXCEPT !.pc = "saving",
                       !.posted[r.idx] = "succeeded",
                       !.events = Append(@, <<"posted", id>>)]]
  /\ UNCHANGED <<reddit, regVars, newReports, stored, fetchLog, dupCall, phase, pairs, initIdx, lastCheckedTweets, pairInd, timerOn,
                 started, store, insCount, firstIns, lastEnd>>

\* createPost rejects: as CreatePostFail, the inner catch marks the tweet
\* failed, saveTweet is called. The posts the call made stay at the
\* destination.
CreatePostThrow(c) ==
  /\ phase = "running"
  /\ cycles[c].pc = "creating"
  /\ poster.pc = "failed"
  /\ poster' = [poster EXCEPT !.pc = "idle"]
  /\ LET r == cycles[c]
         id == r.toPost[r.idx]
     IN cycles' = [cycles EXCEPT ![c] =
          [r EXCEPT !.pc = "saving",
                    !.posted[r.idx] = "failed",
                    !.events = Append(@, <<"failed", id>>)]]
  /\ UNCHANGED <<reddit, regVars, newReports, stored, fetchLog, dupCall, phase, pairs, initIdx, recentPosts, lastCheckedTweets,
                 pairInd, timerOn, started, store, created, insCount, firstIns, lastEnd>>

NextThread ==
  \/ ThreadInitializePair
  \/ Start
  \/ \E c \in Slots : ThreadFetchOk(c)
  \/ \E c \in Slots : Filter(c)
  \/ \E c \in Slots : CreatePostEnter(c)
  \/ CreatePostPrepare
  \/ SubmitPostOk
  \/ SubmitPostFail
  \/ \E c \in Slots : CreatePostReturn(c)
  \/ \E c \in Slots : CreatePostThrow(c)
  \/ \E c \in Slots : SaveOk(c)
  \/ \E c \in Slots : SaveFail(c)

SpecThread == Init /\ [][NextThread]_vars

(***************************************************************************)
(* RedditMonitorService (reddit-monitors): checkNewPosts is called by      *)
(* start() and by the cron job; each call awaits one request and then runs *)
(* processPosts to its end.                                                *)
(***************************************************************************)
\* RedditPost.data.created_utc
CreatedUtc(id) == id * 10

\* RedditPost.data.title
TitleOf(id) ==
  CASE id = 1 -> <<"B", "i", "g", " ", "S", "A", "L", "E">>
    [] id = 2 -> <<"s", "a", "l", "e", "s">>
    [] OTHER  -> <<"N", "e", "w", "s">>

\* config.keywords
Keywords == { <<"S", "a", "l", "e">>, <<"d", "e", "a", "l">> }

\* response.data.data.children of /new.json: the newest posts, newest first.
Listings == {<<>>, <<1>>, <<2, 1>>, <<3, 2, 1>>, <<3, 2>>}

\* String.prototype.includes
Includes(s, p) == \E i \in 1..(Len(s) + 1) : StartsWithAt(s, i, p)

\* config.keywords.filter(keyword => title.includes(keyword.toLowerCase()))
MatchedKeywords(id) ==
  {k \in Keywords : Includes(ToLowerCase(TitleOf(id)), ToLowerCase(k))}

\* [...posts].sort((a, b) => a.data.created_utc - b.data.created_utc)
SortByCreated(posts) ==
  CHOOSE s \in [1..Len(posts) -> Range(posts)] :
    /\ Range(s) = Range(posts)
    /\ \A i, j \in 1..Len(posts) : i < j => CreatedUtc(s[i]) <= CreatedUtc(s[j])

\* One iteration of the loop of processPosts: the post that equals
\* lastProcessedPostId is skipped; any other post is matched against the
\* keywords, reported through onMatchFound on a match, and becomes the last
\* processed post.
ProcessPost(m, id) ==
  IF m.lastProcessedPostId # NullId /\ id = m.lastProcessedPostId
  THEN m
  ELSE [m EXCEPT !.found[id] = IF MatchedKeywords(id) # {} THEN Min(@ + 1, 2) ELSE @,
                 !.lastProcessedPostId = id]

\* for (const post of sortedPosts), from position i.
RECURSIVE ProcessFrom(_, _, _)
ProcessFrom(m, sortedPosts, i) ==
  IF i > Len(sortedPosts) THEN m
  ELSE ProcessFrom(ProcessPost(m, sortedPosts[i]), sortedPosts, i + 1)

\* processPosts(posts)
ProcessPosts(m, posts) == ProcessFrom(m, SortByCreated(posts), 1)

\* checkNewPosts() up to its await: the request for the newest posts is sent.
\* start() awaits the first call before it starts the cron job, whose
\* callbacks do not wait for each other.
CheckNewPosts ==
  /\ reddit.checks < MaxChecks
  /\ reddit.checks = 1 => reddit.pending = 0
  /\ reddit' = [reddit EXCEPT !.checks = @ + 1, !.pending = @ + 1]
  /\ UNCHANGED <<agentVars, regVars>>

\* The request resolves: processPosts runs on the listing.
ListingOk ==
  /\ reddit.pending > 0
  /\ \E posts \in Listings :
       reddit' = [ProcessPosts(reddit, posts) EXCEPT !.pending = @ - 1]
  /\ UNCHANGED <<agentVars, regVars>>

\* The request rejects: the catch of checkNewPosts logs the error.
ListingFail ==
  /\ reddit.pending > 0
  /\ reddit' = [reddit EXCEPT !.pending = @ - 1]
  /\ UNCHANGED <<agentVars, regVars>>

NextMonitor ==
  \/ CheckNewPosts
  \/ ListingOk
  \/ ListingFail

SpecMonitor == Init /\ [][NextMonitor]_vars

(***************************************************************************)
(* Properties                                                              *)
(***************************************************************************)
IsOutcome(e) == e[1] \in {"posted", "failed", "skipped"}

CountEvents(evs, e) == Cardinality({p \in 1..Len(evs) : evs[p] = e})

PosIn(s, x) == CHOOSE i \in 1..Len(s) : s[i] = x

\* C1: in one cycle, when the attempt for a candidate begins, the attempt for
\* every candidate published before it (a smaller id) has begun and finished.
Thm_C1_PostOrder ==
  \A c \in Slots :
    LET r == cycles[c] IN
    \A p \in 1..Len(r.events) :
      r.events[p][1] = "begin" =>
        \A older \in Range(r.toPost) :
          older < r.events[p][2] =>
            /\ \E q \in 1..(p - 1) : r.events[q] = <<"begin", older>>
            /\ \E q \in 1..(p - 1) :
                 IsOutcome(r.events[q]) /\ r.events[q][2] = older

\* C1: a cycle with two candidates has begun the attempt for the later one.
Wit_C1_SecondBegun ==
  \E c \in Slots :
    /\ Len(cycles[c].toPost) >= 2
    /\ cycles[c].toPost[1] < cycles[c].toPost[2]
    /\ \E p \in 1..Len(cycles[c].events) :
         cycles[c].events[p] = <<"begin", cycles[c].toPost[2]>>

\* C2: no source item has destination posts created for it twice.
Cex_C2_NoDoublePost == \A id \in AllIds : created[id] <= 1

\* C3: findNewTweets returns the items of the fetch whose id is not in the
\* previous snapshot, in fetch order, and leaves the full fetch as snapshot.
Thm_C3_FindNewTweets ==
  [][\A c \in Slots :
       (cycles[c].pc = "fetching" /\ cycles'[c].pc = "diffed") =>
         LET a == cycles[c].pair
             latest == cycles'[c].latest
             new == cycles'[c].newTweets
             prev == IF lastCheckedTweets[a] = NoEntry
                     THEN {}
                     ELSE Range(lastCheckedTweets[a])
         IN /\ Range(new) = Range(latest) \ prev
            /\ \A i, j \in 1..Len(new) :
                 i < j => PosIn(latest, new[i]) < PosIn(latest, new[j])
            /\ lastCheckedTweets'[a] = latest
    ]_vars

\* C3: previous snapshot {1, 2}, fetch <<3, 2, 1>>: the new items are <<3>>.
Wit_C3_OneNew ==
  \E c \in Slots :
    /\ cycles[c].pc = "diffed"
    /\ cycles[c].latest = <<3, 2, 1>>
    /\ cycles[c].newTweets = <<3>>
    /\ lastCheckedTweets[cycles[c].pair] = <<3, 2, 1>>

\* The position of the first new item the Duplicate Guard matches.
FirstDuplicate(rp, a, new) ==
  LET D == {i \in 1..Len(new) :
              IsDuplicateWithRecentBlueskyPosts(rp, TextOf(new[i]), a)}
  IN IF D = {} THEN Len(new) + 1 ELSE CHOOSE i \in D : \A j \in D : i <= j

\* The new items before the first match, oldest first.
ItemsBeforeFirstDuplicate(rp, a, new) ==
  LET k == FirstDuplicate(rp, a, new) IN [i \in 1..(k - 1) |-> new[k - i]]

\* C4: the candidates of a cycle are the new items scanned before the first
\* duplicate; no other item is attempted, posted or persisted by the cycle.
Thm_C4_DedupEarlyStop ==
  [][/\ \A c \in Slots :
          (cycles[c].pc = "diffed" /\ cycles'[c] # cycles[c]) =>
            LET cand == ItemsBeforeFirstDuplicate(recentPosts, cycles[c].pair,
                                                  cycles[c].newTweets)
            IN IF cand = <<>>
               THEN cycles'[c] = NoCycle /\ store' = store /\ created' = created
               ELSE cycles'[c].toPost = cand /\ cycles'[c].pc # "idle"
     /\ \A c \in Slots : \A p \in 1..Len(cycles'[c].events) :
          cycles'[c].events[p][2] \in Range(cycles'[c].toPost)
     /\ \A a \in Accounts : \A id \in ItemIds(a) :
          store'[a][id] # store[a][id] =>
            \E c \in Slots : cycles[c].pair = a /\ id \in Range(cycles[c].toPost)
     /\ \A id \in AllIds :
          created'[id] # created[id] =>
            \E c \in Slots : id \in Range(cycles[c].toPost)
    ]_vars

\* C4: first cycle, fetch <<3, 2, 1>>, item 1 matches the destination's "Yo.":
\* 3 and 2 are the candidates and were attempted, item 1 was left out.
Wit_C4_CutAtMatch ==
  /\ started = 1
  /\ lastCheckedTweets["srcA"] # NoEntry
  /\ lastCheckedTweets["srcA"] = <<3, 2, 1>>
  /\ created[1] = 0
  /\ store["srcA"][1] = "none"
  /\ \E c \in Slots :
       /\ cycles[c].toPost = <<2, 3>>
       /\ cycles[c].pc = "saving"
       /\ cycles[c].idx = 2

\* C5: when a cycle leaves the posting loop, every candidate was attempted
\* exactly once, has an outcome, and was persisted after its attempt.
Cex_C5_EveryCandidateOnce ==
  [][\A c \in Slots :
       (cycles[c].pc = "saving" /\ cycles'[c].pc = "idle") =>
         LET r == cycles[c] IN
           /\ r.idx = Len(r.toPost)
           /\ store'[r.pair][r.toPost[r.idx]] = r.posted[r.idx]
           /\ \A i \in 1..Len(r.toPost) :
                /\ CountEvents(r.events, <<"begin", r.toPost[i]>>) = 1
                /\ r.posted[i] \in {"succeeded", "failed"}
                /\ i < r.idx => CountEvents(r.events, <<"saved", r.toPost[i]>>) = 1
    ]_vars

\* C6: a failed fetch ends the cycle with no attempt made and nothing
\* written; an invocation always starts at the fetch with empty locals.
Thm_C6_FetchFailure ==
  [][/\ \A c \in Slots :
          FetchFail(c) =>
            /\ cycles[c].events = <<>>
            /\ cycles[c].toPost = <<>>
            /\ cycles'[c] = NoCycle
            /\ store' = store
            /\ created' = created
     /\ \A c \in Slots :
          (cycles[c].pc = "idle" /\ cycles'[c].pc # "idle") =>
            /\ cycles'[c].pc = "fetching"
            /\ cycles'[c].latest = <<>> /\ cycles'[c].newTweets = <<>>
            /\ cycles'[c].toPost = <<>> /\ cycles'[c].events = <<>>
    ]_vars

\* C6: the first cycle's fetch failed, nothing was posted or stored, and the
\* next tick has started a cycle for the same pair.
Wit_C6_RetryAfterFailedFetch ==
  /\ pairs = <<"srcA">>
  /\ lastEnd = "fetchFailed"
  /\ started = 2
  /\ cycles[1] = NewCycle("srcA")
  /\ \A id \in AllIds : created[id] = 0
  /\ \A id \in ItemIds("srcA") : store["srcA"][id] = "none"

\* C7: whatever saveTweet does for a candidate that is not the last, the
\* outcome in memory is kept and the cycle goes on with the next candidate.
Cex_C7_SaveFailureConfined ==
  [][\A c \in Slots :
       (/\ cycles[c].pc = "saving"
        /\ cycles[c].idx < Len(cycles[c].toPost)
        /\ cycles'[c] # cycles[c]) =>
         /\ cycles'[c].pc \in {"creating", "saving"}
         /\ cycles'[c].idx = cycles[c].idx + 1
         /\ cycles'[c].posted[cycles[c].idx] = cycles[c].posted[cycles[c].idx]
    ]_vars

\* C8: no failure of a cycle stops the process: a failed fetch or save ends
\* the cycle, a failed post is recorded and the cycle goes on, and every
\* invocation starts at the fetch.
Thm_C8_NoFailurePropagates ==
  [][/\ phase = "running" => phase' = "running"
     /\ \A c \in Slots : (FetchFail(c) \/ SaveFail(c)) => cycles'[c] = NoCycle
     /\ \A c \in Slots :
          CreatePostFail(c) =>
            /\ cycles'[c].pc = "saving"
            /\ cycles'[c].posted[cycles[c].idx] = "failed"
     /\ \A c \in Slots :
          (cycles[c].pc = "idle" /\ cycles'[c].pc # "idle") =>
            cycles'[c].pc = "fetching" /\ cycles'[c].idx = 0
    ]_vars

\* C8: a save failed, the process runs, and a later cycle is fetching.
Wit_C8_RunsAfterSaveFailure ==
  /\ lastEnd = "saveFailed"
  /\ phase = "running"
  /\ \E c \in Slots : cycles[c].pc = "fetching"

\* C9: right after a successful post of an item, its text is a duplicate for
\* the same account.
Cex_C9_DuplicateAfterPost ==
  [][\A c \in Slots :
       (/\ cycles[c].pc = "creating"
        /\ cycles'[c].pc = "saving"
        /\ cycles'[c].posted[cycles[c].idx] = "succeeded") =>
         IsDuplicateWithRecentBlueskyPosts(
           recentPosts', TextOf(cycles[c].toPost[cycles[c].idx]), cycles[c].pair)
    ]_vars

\* C10: a cache never holds more than FEED_LIMIT entries, and after
\* FEED_LIMIT + 1 recorded posts the first of them is not in it.
Thm_C10_CacheCapacity ==
  \A a \in Accounts :
    recentPosts[a] # NoCache =>
      /\ Len(recentPosts[a]) <= FEED_LIMIT
      /\ insCount[a] = FEED_LIMIT + 1 =>
           \A k \in 1..Len(recentPosts[a]) : recentPosts[a][k] # firstIns[a]

\* C10: FEED_LIMIT + 1 posts have been recorded for an account.
Wit_C10_OneMoreThanCapacity ==
  \E a \in Accounts : recentPosts[a] # NoCache /\ insCount[a] = FEED_LIMIT + 1

\* C11: recording a post puts its text at the front of the account's cache
\* and keeps every earlier entry, in order, except the oldest one when the
\* cache was full.
Cex_C11_RecordPostFrame ==
  [][\A a \in Accounts :
       insCount'[a] # insCount[a] =>
         LET old == recentPosts[a]
             new == recentPosts'[a]
         IN /\ Len(new) >= 1
            /\ \E v \in {"a", "b", "c"} : new[1] = PostText(insCount'[a], v)
            /\ Tail(new) = IF Len(old) >= FEED_LIMIT
                           THEN SubSeq(old, 1, FEED_LIMIT - 1)
                           ELSE old
    ]_vars

\* A URL starts at position p: "http://" or "https://" followed by a
\* character of the same word. It runs to the end of the word.
UrlStartsAt(s, p) ==
  \/ /\ StartsWithAt(s, p, <<"h", "t", "t", "p", ":", "/", "/">>)
     /\ p + 7 <= Len(s)
     /\ ~IsWhitespace(s[p + 7])
  \/ /\ StartsWithAt(s, p, <<"h", "t", "t", "p", "s", ":", "/", "/">>)
     /\ p + 8 <= Len(s)
     /\ ~IsWhitespace(s[p + 8])

\* The words of the text from position i on, each cut where a URL starts in
\* it and put in lower case; the words that are left, joined by one space.
\* any tells whether a word was kept before i.
RECURSIVE JoinWords(_, _, _)
JoinWords(s, i, any) ==
  LET b == NextNonWs(s, i)
      e == NextWs(s, b) - 1
      p == MinOf({q \in b..e : UrlStartsAt(s, q)} \cup {e + 1})
      word == ToLowerCase(SubSeq(s, b, p - 1))
  IN IF b > Len(s) THEN <<>>
     ELSE IF word = <<>> THEN JoinWords(s, e + 1, any)
     ELSE (IF any THEN <<" ">> ELSE <<>>) \o word \o JoinWords(s, e + 1, TRUE)

\* The normalized prefix of a text.
NormalizedPrefix(s) ==
  LET joined == JoinWords(s, 1, FALSE)
  IN SubSeq(joined, 1, Min(PREFIX_LEN, Len(joined)))

DifferOnlyInUrlsAndCase(s, t) ==
  StripUrls(ToLowerCase(s)) = StripUrls(ToLowerCase(t))

\* C13: against one cache, isDuplicate gives the same answer for two texts
\* that differ only in their URLs and in letter case.
Cex_C13_UrlAndCaseInsensitive ==
  [][dupCall' # dupCall =>
       \A t \in GuardTexts :
         DifferOnlyInUrlsAndCase(t, dupCall'.text) =>
           IsDuplicateWithRecentBlueskyPosts(recentPosts', t, dupCall'.account)
             = dupCall'.result
    ]_vars

\* C14: the posts of a thread are created in chunk order, one at a time; the
\* first has no reply reference, every later one has the first post's
\* reference as root and the previous post's reference as parent.
Thm_C14_ThreadLinkage ==
  poster.isThread =>
    /\ poster.pc = "posting" => poster.i = Len(poster.posts)
    /\ \A k \in 1..Len(poster.posts) :
         LET post == poster.posts[k] IN
           /\ post.text = ThreadMarker(k - 1, Len(poster.chunks)) \o poster.chunks[k]
           /\ k = 1 => post.reply = NoReply
           /\ k > 1 => /\ post.reply.root = poster.posts[1].ref
                       /\ post.reply.parent = poster.posts[k - 1].ref
                       /\ post.ref # poster.posts[k - 1].ref

\* C14: a thread of three posts has been created.
Wit_C14_ThreePostThread ==
  poster.pc = "done" /\ poster.isThread /\ Len(poster.posts) = 3

\* C15: only the first post of an item carries its embed; an item of one
\* chunk becomes one post with the embed and no reply reference.
Thm_C15_EmbedOnFirstPostOnly ==
  /\ \A k \in 1..Len(poster.posts) :
       poster.posts[k].embed = IF k = 1 THEN poster.embed ELSE NoEmbed
  /\ poster.pc = "posting" =>
       poster.request.embed = IF Len(poster.posts) = 0 THEN poster.embed ELSE NoEmbed
  /\ (poster.pc = "done" /\ Len(poster.chunks) = 1) =>
       /\ Len(poster.posts) = 1
       /\ poster.posts[1].text = poster.chunks[1]
       /\ poster.posts[1].reply = NoReply

\* C15: a thread of three posts for an item with an image embed.
Wit_C15_ThreadWithEmbed ==
  poster.pc = "done" /\ Len(poster.posts) = 3 /\ poster.embed = "images"

\* C16: no chunk is longer than CHAR_LIMIT - 20, and no text submitted to
\* the destination, marker included, is longer than CHAR_LIMIT.
Thm_C16_ChunkLength ==
  /\ \A k \in 1..Len(poster.chunks) : Len(poster.chunks[k]) <= CHAR_LIMIT - 20
  /\ Len(poster.request.text) <= CHAR_LIMIT
  /\ \A k \in 1..Len(poster.posts) : Len(poster.posts[k].text) <= CHAR_LIMIT

\* C16: a chunk of exactly CHAR_LIMIT - 20 characters was posted in a thread,
\* with its marker in front.
Wit_C16_FullChunkWithMarker ==
  /\ poster.isThread
  /\ Len(poster.posts) >= 1
  /\ Len(poster.chunks[1]) = CHAR_LIMIT - 20
  /\ Len(poster.posts[1].text) > CHAR_LIMIT - 20

NonWhitespace(s) == SelectSeq(s, LAMBDA c : ~IsWhitespace(c))

RECURSIVE Concat(_, _)
Concat(seqs, k) == IF k > Len(seqs) THEN <<>> ELSE seqs[k] \o Concat(seqs, k + 1)

\* C17: the chunks, concatenated in order, have the non-whitespace
\* characters of the text, all of them and in the same order.
Cex_C17_ContentPreserved ==
  poster.pc \in {"posting", "done", "failed"} =>
    NonWhitespace(Concat(poster.chunks, 1)) = NonWhitespace(poster.text)

\* C18: a text of at most CHAR_LIMIT - 20 characters comes back as one chunk,
\* unchanged.
Cex_C18_FittingTextUnchanged ==
  (poster.pc \in {"posting", "done", "failed"}
   /\ Len(poster.text) <= CHAR_LIMIT - 20) =>
    poster.chunks = <<poster.text>>

\* A checkAndPost invocation for account a starts.
StartsCycleFor(a) ==
  \E c \in Slots : cycles[c].pc = "idle" /\ cycles'[c] = NewCycle(a)

\* C19: the first cycle is for pair 0 and ends before the timer is set;
\* every tick starts exactly one cycle; the k-th cycle started is for pair
\* k mod n; every configured pair is checked again and again.
Thm_C19_RoundRobin ==
  /\ [][LET begun == {c \in Slots : cycles[c].pc = "idle" /\ cycles'[c].pc # "idle"}
        IN /\ Cardinality(begun) <= 1
           /\ (started' # started \/ pairInd' # pairInd) => Cardinality(begun) = 1
           /\ ~timerOn' => started' <= 1
           /\ \A c \in begun :
                /\ cycles'[c].pc = "fetching"
                /\ started = 0 => ~timerOn /\ cycles'[c].pair = pairs[1]
                /\ started > 0 => timerOn
                /\ started < MaxCycles =>
                     cycles'[c].pair = pairs[(started % Len(pairs)) + 1]
                /\ started > 0 =>
                     cycles'[c].pair = pairs[(pairInd % Len(pairs)) + 1]
                /\ cycles'[c].pair = pairs[pairInd']
       ]_vars
  /\ \A a \in Accounts :
       <>(phase = "running" /\ a \in Range(pairs)) => []<><<StartsCycleFor(a)>>_vars

\* C19: with two pairs, the third cycle has started and is for the first
\* pair again.
Wit_C19_BackToFirstPair ==
  /\ pairs = <<"srcA", "srcB">>
  /\ started = 3
  /\ pairInd = 1
  /\ \E c \in Slots : cycles[c] = NewCycle("srcA")

\* C20: at most one check cycle is in progress at any moment.
Cex_C20_OneCycleAtATime ==
  Cardinality({c \in Slots : cycles[c].pc # "idle"}) <= 1

\* The adapters of a platform whose initialize() has resolved.
InitializedFor(p) ==
  {a \in 1..Len(adapters) : adapters[a].platform = p /\ adapters[a].browser # 0}

\* C21: whatever the calls of getScraperForPlatform and however they
\* overlap, at most one adapter is constructed and initialized for a
\* supported platform, and all the calls for that platform that return,
\* return the same adapter.
Cex_C21_OneAdapterPerPlatform ==
  \A p \in SupportedPlatforms :
    /\ Cardinality(InitializedFor(p)) <= 1
    /\ \A c, d \in 1..Len(calls) :
         (/\ calls[c].platform = p /\ calls[c].pc = "returned"
          /\ calls[d].platform = p /\ calls[d].pc = "returned") =>
           calls[c].result = calls[d].result

\* C22: at most one session is ever connected, and every initialized adapter
\* works on the session the factory holds.
Cex_C22_OneSharedSession ==
  /\ Len(sessions) <= 1
  /\ \A a \in 1..Len(adapters) :
       adapters[a].browser # 0 => adapters[a].browser = factory.browser

\* A step of call c of getScraperForPlatform: the call itself, or one of its
\* awaits settling.
StepOfCall(c) ==
  \/ c = Len(calls) + 1 /\ Len(calls') = c
  \/ c <= Len(calls) /\ calls'[c] # calls[c]

Cex_C24_CleanupRepeatable ==
  /\ \A k \in 1..Len(cleanups) :
       cleanups[k].pc = "done" =>
         \A j \in 1..Min(cleanups[k].idx - 1, Len(factory.scrapers)) :
           \E a \in InitializedFor(factory.scrapers[j].platform) :
             sessions[adapters[a].browser].closes >= 1
  /\ \A s \in 1..Len(sessions) : ~sessions[s].closedAgain

PagesHeld(f, s) ==
  IF adapters[fetches[f].scraper].browser # s THEN 0
  ELSE (IF fetches[f].pc \in {"loading", "media", "closing"} THEN 1 ELSE 0)
       + fetches[f].imgOpen

RECURSIVE SumPagesHeld(_, _)
SumPagesHeld(f, s) ==
  IF f = 0 THEN 0 ELSE PagesHeld(f, s) + SumPagesHeld(f - 1, s)

\* C26: the page contexts open in a session are those of the getLatestTweets
\* calls in progress; a call that has returned or failed holds none, so with
\* no call in progress no page context is open.
Thm_C26_PagesClosed ==
  /\ \A s \in 1..Len(sessions) :
       sessions[s].pages = SumPagesHeld(Len(fetches), s)
  /\ \A f \in 1..Len(fetches) :
       fetches[f].pc \in {"returned", "failed"} =>
         fetches[f].imgOpen = 0 /\ fetches[f].imgWaiting = 0
  /\ (\A f \in 1..Len(fetches) : fetches[f].pc \in {"returned", "failed"}) =>
       \A s \in 1..Len(sessions) : sessions[s].pages = 0

\* C26: a fetch has returned and a fetch has failed after its page was
\* opened, and none is in progress.
Wit_C26_ReturnedAndFailed ==
  /\ Len(fetches) = 2
  /\ fetches[1].pc = "returned"
  /\ adapters[fetches[1].scraper].platform = "truthsocial"
  /\ fetches[2].pc = "failed"
  /\ fetches[2].round = 2

\* C27: a postStoredTweet call that has made its post attempt has written
\* the item's record with the outcome of the attempt: posted = succeeded
\* after a success, posted = failed after a failure; and an item whose text
\* the Duplicate Guard matches is not posted.
Cex_C27_StoredPostContract ==
  /\ (stored.pc = "returned" /\ stored.attempt = "succeeded"
      /\ stored.result = "true") =>
       /\ stored.written = "succeeded"
       /\ store[stored.account][stored.id] = "succeeded"
  /\ (stored.pc = "returned" /\ stored.attempt = "failed") =>
       /\ stored.written = "failed"
       /\ store[stored.account][stored.id] = "failed"
  /\ stored.attempt = "skipped" => created[stored.id] = 0

\* C28: every fetch of a cycle goes through the adapter that the factory has
\* resolved for the platform tag of the cycle's pair, so the fetches of two
\* pairs with different tags go through different adapters.
Cex_C28_FetchThroughResolvedAdapter ==
  /\ \A i \in 1..Len(fetchLog) :
       /\ fetchLog[i].adapter # NoScraper
       /\ MapHas(factory.scrapers, fetchLog[i].platform)
       /\ fetchLog[i].adapter = MapGet(factory.scrapers, fetchLog[i].platform)
  /\ \A i, j \in 1..Len(fetchLog) :
       fetchLog[i].platform # fetchLog[j].platform =>
         fetchLog[i].adapter # fetchLog[j].adapter

\* The words of the sentences of a text, in order: each with its sentence
\* and whether it is the last word of that sentence.
RECURSIVE PiecesFrom(_, _)
PiecesFrom(sents, s) ==
  IF s > Len(sents) THEN <<>>
  ELSE LET ws == SelectSeq(SplitWhitespace(sents[s]), LAMBDA w : Len(w) > 0)
       IN [i \in 1..Len(ws) |-> [w |-> ws[i], s |-> s, last |-> i = Len(ws)]]
          \o PiecesFrom(sents, s + 1)

\* The number of characters of the first k sequences.
RECURSIVE CumLen(_, _)
CumLen(seqs, k) == IF k = 0 THEN 0 ELSE Len(seqs[k]) + CumLen(seqs, k - 1)

\* The chunks of a text that does not fit follow the words of its sentences:
\* a word appears whole unless it is longer than SAFE_LIMIT, and then cut at
\* SAFE_LIMIT; a chunk ends where a sentence ends, or between two words of a
\* sentence longer than SAFE_LIMIT; and the sentence, or in such a sentence
\* the word, that follows the end of a chunk did not fit in that chunk.
ChunksFollowWords(text, chunks) ==
  LET sents == Sentences(text)
      pieces == PiecesFrom(sents, 1)
      cut == [i \in 1..Len(pieces) |->
                IF Len(pieces[i].w) > SAFE_LIMIT
                THEN SubSeq(pieces[i].w, 1, SAFE_LIMIT)
                ELSE pieces[i].w]
      bare == [k \in 1..Len(chunks) |-> NonWhitespace(chunks[k])]
  IN /\ Concat(bare, 1) = Concat(cut, 1)
     /\ \A k \in 1..(Len(chunks) - 1) :
          \E m \in 1..(Len(pieces) - 1) :
            /\ CumLen(cut, m) = CumLen(bare, k)
            /\ \/ /\ pieces[m].last
                  /\ Len(chunks[k]) + Len(sents[pieces[m].s + 1]) > SAFE_LIMIT
               \/ /\ ~pieces[m].last
                  /\ Len(sents[pieces[m].s]) > SAFE_LIMIT
                  /\ Len(chunks[k]) + 1 + Len(pieces[m + 1].w) > SAFE_LIMIT

\* C29: splitTextIntoChunks cuts a word only when the word is longer than
\* the limit, and then at the limit; otherwise a chunk ends at the end of a
\* sentence or at whitespace inside a sentence longer than the limit, and
\* the chunks take the sentences and words in input order, as many as fit.
Thm_C29_ChunkBoundaries ==
  (poster.pc \in {"posting", "done", "failed"} /\ Len(poster.text) >= SAFE_LIMIT) =>
    ChunksFollowWords(poster.text, poster.chunks)

\* C29: a text with a word longer than the limit between shorter words has
\* been split: the long word is a chunk of its own, cut at the limit.
Wit_C29_LongWordCut ==
  /\ poster.pc \in {"posting", "done", "failed"}
  /\ poster.text = LongWordInSentence
  /\ Len(poster.chunks) = 3
  /\ poster.chunks[2] = Rep("x", SAFE_LIMIT)

\* The events of an invocation follow the posting loop: for each candidate,
\* in the order of toPost, its attempt begins, its attempt ends, it is saved.
EventsInLoopOrder(r) ==
  \A k \in 1..Len(r.events) :
    LET j == ((k - 1) \div 3) + 1 IN
      /\ j <= Len(r.toPost)
      /\ CASE k % 3 = 1 -> r.events[k] = <<"begin", r.toPost[j]>>
           [] k % 3 = 2 -> r.events[k] \in {<<"posted", r.toPost[j]>>,
                                            <<"failed", r.toPost[j]>>,
                                            <<"skipped", r.toPost[j]>>}
           [] OTHER     -> r.events[k] = <<"saved", r.toPost[j]>>

\* In the posting loop the Item Store holds the outcome of every candidate
\* before the current one and no record of the current and the later ones.
StoreFollowsLoop(r) ==
  r.pc \in {"creating", "saving"} =>
    \A j \in 1..Len(r.toPost) :
      store[r.pair][r.toPost[j]] = IF j < r.idx THEN r.posted[j] ELSE "none"

\* A createPost call is in progress only inside the attempt of the current
\* candidate, for its text.
PosterWithinAttempt ==
  poster.pc # "idle" =>
    \E c \in Slots :
      /\ cycles[c].pc = "creating"
      /\ cycles[c].events[Len(cycles[c].events)] =
           <<"begin", cycles[c].toPost[cycles[c].idx]>>
      /\ poster.text = TextOf(cycles[c].toPost[cycles[c].idx])

\* The destination holds one post per chunk of the item, in order, the posts
\* of a thread with their markers, and the call has returned.
AllChunksPosted(id) ==
  LET chunks == SplitTextIntoChunks(TextOf(id))
      n == Len(chunks)
  IN /\ poster.pc = "idle"
     /\ poster.text = TextOf(id)
     /\ n >= 1
     /\ Len(poster.posts) = n
     /\ n > 1 => \A k \in 1..n :
                   poster.posts[k].text = ThreadMarker(k - 1, n) \o chunks[k]

\* A step that writes a record writes the one of the current candidate, after
\* its attempt has ended, with the outcome of the attempt; it writes
\* `succeeded` for a posted item only when all its chunks are posted.
WriteFollowsAttempt ==
  \A a \in Accounts : \A id \in ItemIds(a) \cup LongItemIds(a) :
    store'[a][id] # store[a][id] =>
      \E c \in Slots :
        /\ cycles[c].pc = "saving"
        /\ cycles[c].pair = a
        /\ cycles[c].toPost[cycles[c].idx] = id
        /\ store'[a][id] = cycles[c].posted[cycles[c].idx]
        /\ cycles[c].events[Len(cycles[c].events)] \in
             {<<"posted", id>>, <<"failed", id>>, <<"skipped", id>>}
        /\ (store'[a][id] = "succeeded") =
             (cycles[c].events[Len(cycles[c].events)] \in
                {<<"posted", id>>, <<"skipped", id>>})
        /\ cycles[c].events[Len(cycles[c].events)] = <<"posted", id>> =>
             AllChunksPosted(id)

Cex_C31_WritePerAttempt ==
  [][/\ ((stored.pc = "creating" /\ stored'.pc # "creating")
         \/ (stored.pc = "loading" /\ stored'.attempt = "skipped"))
          => stored'.pc = "saving"
     /\ store' # store =>
          \/ stored.pc = "saving" /\ stored'.written # "none"
          \/ phase = "constructed" /\ initIdx = 0]_vars

\* The map with the entry of account a only.
OnlyEntryOf(rp, a) == [b \in Accounts |-> IF b = a THEN rp[a] ELSE NoCache]

\* C32: a step of a check cycle changes only the Snapshot Cache entry and the
\* Recent-Destination-Posts entry of the cycle's own account, and the
\* candidates it selects depend on that account's entry only; after
\* initialize nothing else changes an entry.
Thm_C32_CycleFrame ==
  [][\A a \in Accounts :
       /\ lastCheckedTweets'[a] # lastCheckedTweets[a] =>
            \E c \in Slots : /\ cycles[c].pair = a
                             /\ cycles[c].pc = "fetching"
                             /\ cycles'[c].pc = "diffed"
       /\ recentPosts'[a] # recentPosts[a] =>
            \/ phase = "constructed"
            \/ \E c \in Slots : /\ cycles[c].pair = a
                                /\ cycles[c].pc = "creating"
                                /\ cycles'[c].pc = "saving"
       /\ \A c \in Slots :
            (cycles[c].pair = a /\ cycles[c].pc = "diffed" /\ cycles'[c].pc # "diffed") =>
              cycles'[c].toPost \in
                {<<>>, CandidatesToPost(OnlyEntryOf(recentPosts, a), a, cycles[c].newTweets)}
    ]_vars

\* C32: a cycle of srcA has fetched and posted while the entries of srcB are
\* as initialize left them.
Wit_C32_OtherAccountUntouched ==
  /\ pairs = <<"srcA", "srcB">>
  /\ created[1] = 1
  /\ lastCheckedTweets["srcA"] # NoEntry
  /\ recentPosts["srcA"] = <<>>
  /\ lastCheckedTweets["srcB"] = NoEntry
  /\ recentPosts["srcB"] = << <<"O", "K">> >>

\* C33: while an item stays in every fetch of its account, one fetch at most
\* finds it new, and the candidates of a cycle are among the items its own
\* fetch found new: the item is a candidate of one cycle at most, whether it
\* was posted, failed, or cut off by the early stop.
Thm_C33_CandidateOnce ==
  /\ [](\A id \in DOMAIN newReports : newReports[id] <= 1)
  /\ [][\A c \in Slots :
          (cycles[c].pc = "diffed" /\ cycles'[c].pc # "diffed") =>
            Range(cycles'[c].toPost) \subseteq Range(cycles[c].newTweets)]_vars

\* C33: item 1 was attempted and failed, item 2 was cut off by the early
\* stop ("Hi" matches the destination's "HI"); both are in the snapshot of a
\* third fetch and no cycle has them as candidates.
Wit_C33_FailedNotRetried ==
  /\ started = 3
  /\ store["srcA"][1] = "failed"
  /\ store["srcA"][2] = "none"
  /\ created[1] = 0
  /\ created[2] = 0
  /\ lastCheckedTweets["srcA"] = <<3, 2, 1>>
  /\ newReports[1] = 1
  /\ newReports[2] = 1
  /\ \E c \in Slots : /\ cycles[c].pc = "creating"
                      /\ cycles[c].toPost = <<3>>

\* C34: the step in which the fetch of a cycle fails changes no entry of the
\* Snapshot Cache and none of the Recent-Destination-Posts cache, and finds no
\* item new; so the fetch that succeeds next finds new every item it shows
\* that was new when the fetch failed.
Thm_C34_FailedFetchFrame ==
  [][/\ \A c \in Slots :
          (cycles[c].pc = "fetching" /\ cycles'[c].pc = "idle") =>
            /\ lastCheckedTweets' = lastCheckedTweets
            /\ recentPosts' = recentPosts
            /\ newReports' = newReports
     /\ \A c \in Slots :
          (cycles[c].pc = "fetching" /\ cycles'[c].pc = "diffed"
             /\ lastEnd = "fetchFailed") =>
            \A id \in Range(cycles'[c].latest) :
              newReports[id] = 0 => id \in Range(cycles'[c].newTweets)
    ]_vars

\* C34: item 1 was fetched and persisted, the fetch of the second cycle
\* failed, and the third fetch shows items 2 and 1: item 2, new when the
\* fetch failed, is found new.
Wit_C34_NewAfterFailedFetch ==
  /\ started = 3
  /\ lastEnd = "fetchFailed"
  /\ store["srcA"][1] # "none"
  /\ \E c \in Slots : /\ cycles[c].pc = "diffed"
                      /\ cycles[c].latest = <<2, 1>>
                      /\ cycles[c].newTweets = <<2>>

\* C35: a postStoredTweet call writes posted = succeeded, and returns true,
\* only when its attempt created a destination post for the item; an attempt
\* that postTweet's own duplicate check suppressed is not written as
\* succeeded.
Cex_C35_SucceededMeansPosted ==
  /\ stored.written = "succeeded" =>
       stored.attempt = "succeeded" /\ created[stored.id] >= 1
  /\ stored.result = "true" => stored.attempt = "succeeded"
  /\ (stored.attempt = "skipped" /\ stored.pc = "returned") =>
       stored.written # "succeeded"

\* C36: when the attempt for a candidate has ended as failed, the destination
\* holds no post of the createPost call made for it, whichever chunk the
\* failure occurred at.
Cex_C36_AllOrNothing ==
  \A c \in Slots :
    (/\ cycles[c].pc = "saving"
     /\ cycles[c].posted[cycles[c].idx] = "failed"
     /\ poster.text = TextOf(cycles[c].toPost[cycles[c].idx]))
      => poster.posts = <<>>

\* C37: once createPost has split its text, there is at least one chunk, and
\* for a text with a character that is not whitespace no chunk is empty.
Cex_C37_FirstChunkExists ==
  poster.pc \in {"posting", "done", "failed"} =>
    /\ Len(poster.chunks) >= 1
    /\ (\E i \in 1..Len(poster.text) : ~IsWhitespace(poster.text[i])) =>
         \A k \in 1..Len(poster.chunks) : poster.chunks[k] # <<>>

\* C38: over the checks of the Reddit monitor, onMatchFound is invoked at
\* most once for a post id.
Cex_C38_ReportedOnce == \A id \in PostIds : reddit.found[id] <= 1


====
